---- MODULE Spec2Model ----
(***************************************************************************)
(* OAuth session lifecycle of the TikTok ads creative demo:                *)
(*   src/services/oauth.ts        state token, token exchange, token store  *)
(*   src/contexts/AuthContext.tsx AuthProvider: initAuth, login, logout,    *)
(*                                handleCallback                            *)
(*   src/services/tiktokApi.ts    getAdvertiserInfo (real and mock mode)    *)
(*                                                                         *)
(* and, each under a specification of its own:                             *)
(*   src/utils/errorMessages.ts   mapApiErrorToUserError (SpecClassify)     *)
(*   src/services/tiktokApi.ts    apiRequest and the operations (SpecGateway)*)
(*   src/components/RootLayout.tsx AdCreationForm (SpecForm)                *)
(*   src/contexts/AuthContext.tsx MusicSelector debounce (SpecMusic)        *)
(*   src/services/validation.ts   validateAdForm (SpecValidate)             *)
(*   OAuthCallback and Home       redirects of the callback (SpecRedirect)  *)
(*   AdCreationForm with uploads and its error banner (SpecAd), and with    *)
(*   the music ID validated over time (SpecSubmit)                          *)
(*   AuthProvider in one document, every request answered (SpecLive)        *)
(*                                                                         *)
(* The browser is single threaded: every action below is one synchronous   *)
(* run of code between two awaits.  Date.now() is read once per action.    *)
(* Operations exposed by the AuthContext (login, logout, handleCallback)   *)
(* may be invoked by any consumer once the mount effects have run.         *)
(***************************************************************************)
EXTENDS Integers, Sequences, FiniteSets, TLC

VARIABLES
    apiMode,        \* VITE_API_MODE || "real"
    now,            \* Date.now(), milliseconds
    page,           \* "mounted": the app document is loaded; "away": navigated out
    oauth_state,    \* sessionStorage item "oauth_state"
    tiktok_tokens,  \* localStorage item "tiktok_tokens"
    authState,      \* useState<TikTokAuthState> of AuthProvider
    boot,           \* position of the initAuth effect
    inflight,       \* handleCallback invocations suspended at an await
    ev,             \* the operation that ran last and what it observed
    fnIn,           \* argument of the functions called in isolation
    fnOut,          \* their last result
    form,           \* useState of AdCreationForm, and its createAd calls in flight
    music,          \* useState of MusicSelector, its timers and requests in flight
    route           \* the router's location and useState(oauthError) of Home

vars == <<apiMode, now, page, oauth_state, tiktok_tokens, authState, boot,
          inflight, ev, fnIn, fnOut, form, music, route>>

-----------------------------------------------------------------------------
(* Bounds and input domains *)

\* number of clock samples taken after time 0
MaxTicks == 4

\* values crypto.getRandomValues may produce for the state token
States == {"s1", "s2"}
\* state query parameters a callback URL may carry
CallbackStates == States \cup {"wrong"}
Codes == {"abc"}

\* JavaScript null / undefined, for string-typed and object-typed places
NullStr == "<null>"
NullObj == [null |-> TRUE]

-----------------------------------------------------------------------------
(* src/components/AdCreationForm.tsx, MusicSelector.tsx: state after mount *)

\* JavaScript undefined in a place that holds a File
NoFile == [undefined |-> TRUE]

\* URLSearchParams of a location without query string
NoParams == [error |-> NullStr, code |-> NullStr, state |-> NullStr]

\* the index route with nothing to show
RouteIdle == [path |-> "/", search |-> NoParams, oauthError |-> NullObj]

InitialFormData ==
    [campaignName |-> "", objective |-> "TRAFFIC", adText |-> "",
     cta |-> "LEARN_MORE", musicOption |-> "existing", musicId |-> "",
     uploadedMusicFile |-> NoFile]

\* pending: createAd calls awaiting their result; timers: setTimeout calls
\* not yet run
FormIdle ==
    [formData |-> InitialFormData, errors |-> <<>>, systemError |-> NullObj,
     submitting |-> FALSE, success |-> FALSE, pending |-> {}, timers |-> {}]

\* timer: the handle the cleanup of the last debounce effect holds; timers:
\* setTimeout calls not yet run; pending: validateMusicId calls awaiting
\* their result; hist: when the dependencies of the debounce effect last
\* changed, whether by an edit of the music ID, how many edits in a row came
\* less than the debounce delay after the one before, and the requests sent
\* since the last change
MusicIdle ==
    [validatingMusic |-> FALSE, musicValidationResult |-> NullObj,
     uploadingMusic |-> FALSE, timer |-> NullObj, timers |-> {}, pending |-> {},
     uploads |-> {},
     hist |-> [changedAt |-> 0, byInput |-> FALSE, burst |-> 0, sent |-> {}]]

-----------------------------------------------------------------------------
(* JSON text of an OAuthTokens object *)

KeyOrder_NoRefresh ==
    <<"accessToken", "access_token", "expires_in", "advertiser_id", "timestamp">>
KeyOrder ==
    <<"accessToken", "access_token", "refreshToken", "expires_in", "advertiser_id",
      "timestamp">>
NumberKeys == {"expires_in", "timestamp"}

\* a JSON literal: numbers and strings are distinct kinds of literal
JSON_literal(k, v) == IF k \in NumberKeys THEN [num |-> v] ELSE [str |-> v]
JSON_value(lit) == IF "num" \in DOMAIN lit THEN lit.num ELSE lit.str

RECURSIVE JSON_members(_, _)
JSON_members(obj, keys) ==
    IF keys = <<>> THEN <<>>
    ELSE LET k == Head(keys)
             rest == JSON_members(obj, Tail(keys))
         IN IF k \in DOMAIN obj
            THEN <<[key |-> k, lit |-> JSON_literal(k, obj[k])]>> \o rest
            ELSE rest

\* JSON.stringify(tokens): keys that the object does not carry are not written
JSON_stringify(obj) ==
    IF obj = NullObj THEN [json |-> "null"]
    ELSE [json |-> "object", members |-> JSON_members(obj, KeyOrder)]

\* JSON.parse(stored), for a text that parses
JSON_parse(text) ==
    IF text.json = "null" THEN NullObj
    ELSE LET ms == text.members
             keys == {ms[i].key : i \in DOMAIN ms}
         IN [k \in keys |->
                JSON_value((CHOOSE m \in {ms[i] : i \in DOMAIN ms} : m.key = k).lit)]

-----------------------------------------------------------------------------
(* src/services/oauth.ts *)

bufferTime == 5 * 60 * 1000

isTokenValid_Inclusive(tokens, t) ==
    IF tokens = NullObj THEN FALSE
    ELSE IF ~({"timestamp", "expires_in"} \subseteq DOMAIN tokens) THEN FALSE
    ELSE LET expirationTime == tokens.timestamp + tokens.expires_in * 1000
         IN t <= expirationTime - bufferTime

isTokenValid(tokens, t) ==
    IF tokens = NullObj THEN FALSE
    ELSE IF ~({"timestamp", "expires_in"} \subseteq DOMAIN tokens) THEN FALSE
    ELSE LET expirationTime == tokens.timestamp + tokens.expires_in * 1000
         IN t < expirationTime - bufferTime

\* localStorage.removeItem("tiktok_tokens"): the item after the call
clearTokens == NullObj

\* localStorage.setItem("tiktok_tokens", JSON.stringify(tokens)): the item
\* after the call (the storage is taken to accept the write)
storeTokens(tokens) == JSON_stringify(tokens)

\* getStoredTokens(): value returned for a stored item at time t
getStoredTokens(item, t) ==
    IF item = NullObj THEN NullObj
    ELSE IF item.json = "invalid" THEN NullObj
    ELSE LET tokens == JSON_parse(item)
         IN IF ~isTokenValid(tokens, t) THEN NullObj ELSE tokens

getStoredTokens_item_Keep(item, t) == item

\* getStoredTokens(): the stored item after the call
getStoredTokens_item(item, t) ==
    IF item = NullObj THEN item
    ELSE IF item.json = "invalid" THEN item
    ELSE IF ~isTokenValid(JSON_parse(item), t) THEN clearTokens ELSE item

StateMatches_StoredOnly(state, savedState) == savedState # NullStr
StateMatches_SkipWhenAbsent(state, savedState) ==
    savedState = NullStr \/ state = savedState

\* handleOAuthCallback: the CSRF comparison `state !== savedState`, negated
StateMatches(state, savedState) == state = savedState

tokensWithTimestamp_Seconds(tokens, t) ==
    [k \in DOMAIN tokens \cup {"timestamp"} |->
        IF k = "timestamp" THEN t \div 1000 ELSE tokens[k]]

\* { ...tokens, timestamp: Date.now() }
tokensWithTimestamp(tokens, t) ==
    [k \in DOMAIN tokens \cup {"timestamp"} |->
        IF k = "timestamp" THEN t ELSE tokens[k]]

-----------------------------------------------------------------------------
(* Remote responses *)

\* data.data of a successful token exchange, returned as it is under the type
\* OAuthTokens: objects of that shape, and one that names the token
\* access_token, the name the type's comment says the API uses
ServerData ==
    {[accessToken |-> "tokA", expires_in |-> 301],
     [accessToken |-> "tokB", expires_in |-> 7200],
     [accessToken |-> "tokB", expires_in |-> 301, refreshToken |-> "r1",
      advertiser_id |-> "ADV_1"],
     [access_token |-> "tokC", expires_in |-> 7200]}

\* tokens.accessToken: undefined when the object has no such property
accessTokenOf(tokens) ==
    IF "accessToken" \in DOMAIN tokens THEN tokens.accessToken ELSE NullStr

\* values thrown inside exchangeCodeForTokens: the ApiError object literal
\* built for `!response.ok || data.code !== 0`, and the TypeError of a
\* rejected fetch
ExchangeErrors ==
    {[name |-> "Object", code |-> "40001", message |-> "Invalid auth code"],
     [name |-> "TypeError", code |-> NullStr, message |-> "Failed to fetch"]}

exchangeCodeForTokens ==
    {[ok |-> TRUE, data |-> d] : d \in ServerData}
        \cup {[ok |-> FALSE, error |-> e] : e \in ExchangeErrors}

\* values thrown by apiRequest: the ApiError object literal for
\* `data.code !== 0`, the network_error ApiError that replaces a TypeError,
\* and any other error re-thrown as it is (response.json() failing)
ApiRequestErrors ==
    {[name |-> "Object", code |-> "40104", message |-> "access_token_expired"],
     [name |-> "Object", code |-> "network_error",
      message |-> "Network request failed. Please check your connection."],
     [name |-> "SyntaxError", code |-> NullStr, message |-> "Unexpected token"]}

Profiles ==
    {[advertiser_id |-> "ADV_1", advertiser_name |-> "Acme"],
     [advertiser_id |-> "ADV_2", advertiser_name |-> "Globex"]}

mockGetAdvertiserInfo ==
    [advertiser_id |-> "ADV_1234567890", advertiser_name |-> "Demo Advertiser"]

\* getAdvertiserInfo(accessToken): the ways the returned promise can settle
getAdvertiserInfo(mode) ==
    IF mode = "mock"
    THEN {[ok |-> TRUE, user |-> mockGetAdvertiserInfo]}
    ELSE {[ok |-> TRUE, user |-> u] : u \in Profiles}
            \cup {[ok |-> FALSE, error |-> e] : e \in ApiRequestErrors}

-----------------------------------------------------------------------------
(* src/contexts/AuthContext.tsx: the values setState is called with *)

InitialAuthState ==
    [isAuthenticated |-> FALSE, accessToken |-> NullStr, advertiserId |-> NullStr,
     user |-> NullObj, loading |-> TRUE, error |-> NullStr]

Unauthenticated ==
    [isAuthenticated |-> FALSE, accessToken |-> NullStr, advertiserId |-> NullStr,
     user |-> NullObj, loading |-> FALSE, error |-> NullStr]

Authenticated(tokens, user) ==
    [isAuthenticated |-> TRUE, accessToken |-> accessTokenOf(tokens),
     advertiserId |-> user.advertiser_id, user |-> user,
     loading |-> FALSE, error |-> NullStr]

\* error instanceof Error ? error.message : "Authentication failed"
errorMessage(error) ==
    IF error.name # "Object" THEN error.message ELSE "Authentication failed"

Failed_StillLoading(error) ==
    [isAuthenticated |-> FALSE, accessToken |-> NullStr, advertiserId |-> NullStr,
     user |-> NullObj, loading |-> TRUE, error |-> errorMessage(error)]

Failed(error) ==
    [isAuthenticated |-> FALSE, accessToken |-> NullStr, advertiserId |-> NullStr,
     user |-> NullObj, loading |-> FALSE, error |-> errorMessage(error)]

\* setState((prev) => ({ ...prev, loading: true, error: null }))
SetLoading(prev) == [prev EXCEPT !.loading = TRUE, !.error = NullStr]

CsrfError ==
    [name |-> "Error", code |-> NullStr,
     message |-> "Invalid state parameter. Possible CSRF attack."]

mockTokens(t) ==
    [accessToken |-> "mock_token_for_testing_12345", expires_in |-> 7200,
     timestamp |-> t]

BootIdle == [phase |-> "done", tokens |-> NullObj]

-----------------------------------------------------------------------------
(* Initial state: the document has just been loaded, AuthProvider has      *)
(* rendered once and its effect has not run yet.  localStorage may hold    *)
(* whatever an earlier visit left there.                                   *)

InitialItems ==
    {NullObj, [json |-> "invalid"], [json |-> "null"]}
        \cup {storeTokens(tokensWithTimestamp(d, 0)) : d \in ServerData}

Init ==
    /\ apiMode \in {"real", "mock"}
    /\ now = 0
    /\ page = "mounted"
    /\ oauth_state = NullStr
    /\ tiktok_tokens \in InitialItems
    /\ authState = InitialAuthState
    /\ boot = [phase |-> "pending", tokens |-> NullObj]
    /\ inflight = {}
    /\ ev = [op |-> "mount"]
    /\ fnIn = NullObj
    /\ fnOut = [fn |-> "none"]
    /\ form = FormIdle
    /\ music = MusicIdle
    /\ route = RouteIdle

\* the mount effects have run and the document is still loaded
Interactive == page = "mounted" /\ boot.phase # "pending"

-----------------------------------------------------------------------------
(* Environment *)

\* the clock is sampled just before and at each full second:
\* 0, 999, 1000, 1999, 2000, ...
NextSample(t) == IF t % 1000 = 999 THEN t + 1 ELSE t + 999
SampleIndex(t) == 2 * (t \div 1000) + (IF t % 1000 = 999 THEN 1 ELSE 0)

Tick ==
    /\ SampleIndex(now) < MaxTicks
    /\ now' = NextSample(now)
    /\ ev' = [op |-> "tick"]
    /\ UNCHANGED <<apiMode, page, oauth_state, tiktok_tokens, authState, boot,
                   inflight, fnIn, fnOut, form, music, route>>

\* the app document is loaded (first visit, reload, or return from the
\* authorization page): React state starts over, both storages persist, and
\* whatever the previous document was awaiting is gone
Mount ==
    /\ page' = "mounted"
    /\ authState' = InitialAuthState
    /\ boot' = [phase |-> "pending", tokens |-> NullObj]
    /\ inflight' = {}
    /\ ev' = [op |-> "mount"]
    /\ UNCHANGED <<apiMode, now, oauth_state, tiktok_tokens, fnIn, fnOut, form, music, route>>

-----------------------------------------------------------------------------
(* AuthProvider: the initAuth effect *)

\* initAuth up to its first await (or to its end when there is none)
InitAuthStart ==
    /\ page = "mounted" /\ boot.phase = "pending"
    /\ LET tokens == getStoredTokens(tiktok_tokens, now)
       IN /\ tiktok_tokens' = getStoredTokens_item(tiktok_tokens, now)
          /\ ev' = [op |-> "initAuthStart", item |-> tiktok_tokens, tokens |-> tokens]
          /\ IF tokens # NullObj /\ isTokenValid(tokens, now)
             THEN /\ boot' = [phase |-> "fetchStored", tokens |-> tokens]
                  /\ UNCHANGED authState
             ELSE IF apiMode = "mock"
             THEN /\ boot' = [phase |-> "fetchMock", tokens |-> mockTokens(now)]
                  /\ UNCHANGED authState
             ELSE /\ boot' = BootIdle
                  /\ authState' = Unauthenticated
    /\ UNCHANGED <<apiMode, now, page, oauth_state, inflight, fnIn, fnOut, form, music, route>>

InitAuthCatch_item_Keep(item) == item

\* the catch block after getAdvertiserInfo(tokens.accessToken) rejected:
\* what it does to the store
InitAuthCatch_item(item) == clearTokens

\* getAdvertiserInfo(tokens.accessToken) settles for the stored tokens
InitAuthStoredSettled(r) ==
    /\ page = "mounted" /\ boot.phase = "fetchStored"
    /\ r \in getAdvertiserInfo(apiMode)
    /\ IF r.ok
       THEN /\ authState' = Authenticated(boot.tokens, r.user)
            /\ boot' = BootIdle
            /\ UNCHANGED tiktok_tokens
            /\ ev' = [op |-> "initAuthDone", via |-> "stored", ok |-> TRUE]
       ELSE /\ tiktok_tokens' = InitAuthCatch_item(tiktok_tokens)
            /\ ev' = [op |-> "initAuthDone", via |-> "stored", ok |-> FALSE]
            /\ IF apiMode = "mock"
               THEN /\ boot' = [phase |-> "fetchMock", tokens |-> mockTokens(now)]
                    /\ UNCHANGED authState
               ELSE /\ boot' = BootIdle
                    /\ authState' = Unauthenticated
    /\ UNCHANGED <<apiMode, now, page, oauth_state, inflight, fnIn, fnOut, form, music, route>>

\* getAdvertiserInfo(mockTokens.accessToken) settles
InitAuthMockSettled(r) ==
    /\ page = "mounted" /\ boot.phase = "fetchMock"
    /\ r \in getAdvertiserInfo(apiMode)
    /\ authState' = IF r.ok THEN Authenticated(boot.tokens, r.user)
                            ELSE Unauthenticated
    /\ boot' = BootIdle
    /\ ev' = [op |-> "initAuthDone", via |-> "mock", ok |-> r.ok]
    /\ UNCHANGED <<apiMode, now, page, oauth_state, tiktok_tokens, inflight,
                   fnIn, fnOut, form, music, route>>

-----------------------------------------------------------------------------
(* AuthProvider: login, logout *)

login_KeepsFirst(state) ==
    /\ Interactive
    /\ state \in States
    /\ authState' = SetLoading(authState)
    /\ oauth_state' = IF oauth_state = NullStr THEN state ELSE oauth_state
    /\ page' = "away"
    /\ boot' = BootIdle
    /\ inflight' = {}
    /\ ev' = [op |-> "login", wasLoading |-> authState.loading,
              savedState |-> oauth_state, issued |-> state]
    /\ UNCHANGED <<apiMode, now, tiktok_tokens, fnIn, fnOut, form, music, route>>

\* login(): setState(loading), then initiateOAuthFlow() stores a fresh state
\* token and assigns window.location.href, which unloads the document
login(state) ==
    /\ Interactive
    /\ state \in States
    /\ authState' = SetLoading(authState)
    /\ oauth_state' = state
    /\ page' = "away"
    /\ boot' = BootIdle
    /\ inflight' = {}
    /\ ev' = [op |-> "login", wasLoading |-> authState.loading,
              savedState |-> oauth_state, issued |-> state]
    /\ UNCHANGED <<apiMode, now, tiktok_tokens, fnIn, fnOut, form, music, route>>

logout_KeepsTokens ==
    /\ Interactive
    /\ authState' = Unauthenticated
    /\ ev' = [op |-> "logout", before |-> authState]
    /\ UNCHANGED <<apiMode, now, page, oauth_state, tiktok_tokens, boot, inflight,
                   fnIn, fnOut, form, music, route>>

logout ==
    /\ Interactive
    /\ tiktok_tokens' = clearTokens
    /\ authState' = Unauthenticated
    /\ ev' = [op |-> "logout", before |-> authState]
    /\ UNCHANGED <<apiMode, now, page, oauth_state, boot, inflight, fnIn, fnOut, form, music, route>>

-----------------------------------------------------------------------------
(* AuthProvider: handleCallback, with handleOAuthCallback inlined *)

\* handleOAuthCallback after a failed comparison: the stored state token
handleOAuthCallback_rejected(savedState) == savedState

\* handleCallback(code, callbackState) up to the first await: setState(loading),
\* then handleOAuthCallback compares the state, and either throws (the catch of
\* handleCallback then sets the error) or removes the stored state token and
\* sends the token exchange request
handleCallback(code, callbackState) ==
    /\ Interactive
    /\ code \in Codes /\ callbackState \in CallbackStates
    /\ LET savedState == oauth_state
           verified == StateMatches(callbackState, savedState)
       IN /\ ev' = [op |-> "handleCallback", state |-> callbackState,
                    savedState |-> savedState, verified |-> verified,
                    item |-> tiktok_tokens, inflight |-> inflight]
          /\ IF ~verified
             THEN /\ oauth_state' = handleOAuthCallback_rejected(savedState)
                  /\ authState' = Failed(CsrfError)
                  /\ UNCHANGED inflight
             ELSE /\ oauth_state' = NullStr
                  /\ authState' = SetLoading(authState)
                  /\ inflight' = inflight \cup {[phase |-> "exchange", code |-> code,
                                                 tokens |-> NullObj]}
    /\ UNCHANGED <<apiMode, now, page, tiktok_tokens, boot, fnIn, fnOut, form, music, route>>

ExchangeSettled_ClearsOnFailure(call, r) ==
    /\ page = "mounted"
    /\ call \in inflight /\ call.phase = "exchange"
    /\ r \in exchangeCodeForTokens
    /\ IF r.ok
       THEN LET tokens == tokensWithTimestamp(r.data, now)
            IN /\ tiktok_tokens' = storeTokens(tokens)
               /\ inflight' = (inflight \ {call})
                                 \cup {[phase |-> "profile", code |-> call.code,
                                        tokens |-> tokens]}
               /\ ev' = [op |-> "exchangeDone", ok |-> TRUE, tokens |-> tokens,
                         data |-> r.data, header |-> accessTokenOf(tokens)]
               /\ UNCHANGED authState
       ELSE /\ authState' = Failed(r.error)
            /\ inflight' = inflight \ {call}
            /\ ev' = [op |-> "exchangeDone", ok |-> FALSE, error |-> r.error]
            /\ tiktok_tokens' = clearTokens
    /\ UNCHANGED <<apiMode, now, page, oauth_state, boot, fnIn, fnOut, form, music, route>>

\* exchangeCodeForTokens(code) settles: on success the tokens are stamped and
\* stored and getAdvertiserInfo is requested with tokens.accessToken as the
\* Access-Token header; on failure the error is re-thrown
\* to the catch of handleCallback
ExchangeSettled(call, r) ==
    /\ page = "mounted"
    /\ call \in inflight /\ call.phase = "exchange"
    /\ r \in exchangeCodeForTokens
    /\ IF r.ok
       THEN LET tokens == tokensWithTimestamp(r.data, now)
            IN /\ tiktok_tokens' = storeTokens(tokens)
               /\ inflight' = (inflight \ {call})
                                 \cup {[phase |-> "profile", code |-> call.code,
                                        tokens |-> tokens]}
               /\ ev' = [op |-> "exchangeDone", ok |-> TRUE, tokens |-> tokens,
                         data |-> r.data, header |-> accessTokenOf(tokens)]
               /\ UNCHANGED authState
       ELSE /\ authState' = Failed(r.error)
            /\ inflight' = inflight \ {call}
            /\ ev' = [op |-> "exchangeDone", ok |-> FALSE, error |-> r.error]
            /\ UNCHANGED tiktok_tokens
    /\ UNCHANGED <<apiMode, now, page, oauth_state, boot, fnIn, fnOut, form, music, route>>

\* getAdvertiserInfo(tokens.accessToken) of handleCallback settles
ProfileSettled(call, r) ==
    /\ page = "mounted"
    /\ call \in inflight /\ call.phase = "profile"
    /\ r \in getAdvertiserInfo(apiMode)
    /\ IF r.ok
       THEN /\ authState' = Authenticated(call.tokens, r.user)
            /\ ev' = [op |-> "callbackDone", ok |-> TRUE, tokens |-> call.tokens,
                      user |-> r.user]
       ELSE /\ authState' = Failed(r.error)
            /\ ev' = [op |-> "callbackDone", ok |-> FALSE, error |-> r.error,
                      tokens |-> call.tokens]
    /\ inflight' = inflight \ {call}
    /\ UNCHANGED <<apiMode, now, page, oauth_state, tiktok_tokens, boot, fnIn, fnOut, form, music, route>>

-----------------------------------------------------------------------------
Next ==
    \/ Tick
    \/ Mount
    \/ InitAuthStart
    \/ \E r \in getAdvertiserInfo(apiMode) : InitAuthStoredSettled(r)
    \/ \E r \in getAdvertiserInfo(apiMode) : InitAuthMockSettled(r)
    \/ \E state \in States : login(state)
    \/ logout
    \/ \E code \in Codes, callbackState \in CallbackStates :
           handleCallback(code, callbackState)
    \/ \E call \in inflight, r \in exchangeCodeForTokens : ExchangeSettled(call, r)
    \/ \E call \in inflight, r \in getAdvertiserInfo(apiMode) : ProfileSettled(call, r)

Spec == Init /\ [][Next]_vars

-----------------------------------------------------------------------------
(* The token store called in isolation: isTokenValid, storeTokens and      *)
(* getStoredTokens applied to any credential at any sampled time.          *)

Credentials ==
    LET required == {[accessToken |-> "tokA", expires_in |-> e, timestamp |-> ts] :
                        e \in {0, 300, 301, 7200}, ts \in {0, 999, 1000}}
        with(c, k, v) == [x \in DOMAIN c \cup {k} |-> IF x = k THEN v ELSE c[x]]
    IN required
         \cup {with(c, "refreshToken", "r1") : c \in required}
         \cup {with(c, "advertiser_id", "ADV_1") : c \in required}
         \cup {with(with(c, "refreshToken", "r1"), "advertiser_id", "ADV_1") :
                  c \in required}

InitStore ==
    /\ apiMode = "real"
    /\ now = 0
    /\ page = "mounted"
    /\ oauth_state = NullStr
    /\ tiktok_tokens = NullObj
    /\ authState = InitialAuthState
    /\ boot = BootIdle
    /\ inflight = {}
    /\ ev = [op |-> "none"]
    /\ fnIn \in Credentials \cup {NullObj}
    /\ fnOut = [fn |-> "none"]
    /\ form = FormIdle
    /\ music = MusicIdle
    /\ route = RouteIdle

StoreFrame ==
    UNCHANGED <<apiMode, page, oauth_state, authState, boot, inflight, ev, form, music, route>>

CallTick ==
    /\ SampleIndex(now) < MaxTicks
    /\ now' = NextSample(now)
    /\ fnOut' = [fn |-> "tick"]
    /\ UNCHANGED <<tiktok_tokens, fnIn, route>>
    /\ StoreFrame

CallIsTokenValid ==
    /\ fnOut' = [fn |-> "isTokenValid", ret |-> isTokenValid(fnIn, now)]
    /\ UNCHANGED <<now, tiktok_tokens, fnIn, route>>
    /\ StoreFrame

CallStoreTokens ==
    /\ fnIn # NullObj
    /\ tiktok_tokens' = storeTokens(fnIn)
    /\ fnOut' = [fn |-> "storeTokens"]
    /\ UNCHANGED <<now, fnIn, route>>
    /\ StoreFrame

CallGetStoredTokens ==
    /\ fnOut' = [fn |-> "getStoredTokens", after |-> fnOut.fn,
                 ret |-> getStoredTokens(tiktok_tokens, now)]
    /\ tiktok_tokens' = getStoredTokens_item(tiktok_tokens, now)
    /\ UNCHANGED <<now, fnIn, route>>
    /\ StoreFrame

NextStore == CallTick \/ CallIsTokenValid \/ CallStoreTokens \/ CallGetStoredTokens

SpecStore == InitStore /\ [][NextStore]_vars

-----------------------------------------------------------------------------
(* Properties of the state token (oauth.ts handleOAuthCallback) *)

IsObjectText(item) == "json" \in DOMAIN item /\ item.json = "object"

\* C1: the state token is one-shot: a verification succeeds only for a
\* candidate equal to the stored token, and any verification attempt made
\* while a token is stored removes that token, whether or not it matched.
C1_OneShot ==
    ev.op = "handleCallback" =>
        /\ ev.verified => ev.state = ev.savedState /\ ev.savedState \in States
        /\ ev.savedState # NullStr => oauth_state = NullStr

\* C2: a callback whose state differs from the stored token fails: it sends
\* no token exchange request, writes nothing to the credential store, and
\* leaves the session not authenticated.
C2_MismatchRejected ==
    ev.op = "handleCallback" /\ ev.state # ev.savedState =>
        /\ ~ev.verified
        /\ inflight = ev.inflight
        /\ tiktok_tokens = ev.item
        /\ ~authState.isAuthenticated /\ authState.accessToken = NullStr
        /\ ~authState.loading

C2_Witness ==
    /\ ev.op = "handleCallback"
    /\ ev.savedState \in States /\ ev.state \in States
    /\ ev.state # ev.savedState

\* C3: with no state token stored, a callback presenting any candidate fails
\* verification and no token exchange request is sent.
C3_AbsentTokenFails ==
    ev.op = "handleCallback" /\ ev.savedState = NullStr =>
        /\ ~ev.verified
        /\ inflight = ev.inflight
        /\ authState.error = CsrfError.message

C3_Witness ==
    /\ ev.op = "handleCallback"
    /\ ev.savedState = NullStr /\ ev.state \in States
    /\ oauth_state = NullStr

-----------------------------------------------------------------------------
(* Properties of the session (AuthContext.tsx) *)

C5_LoginGuard ==
    ev.op = "login" /\ ev.wasLoading =>
        oauth_state = ev.savedState /\ page = "mounted"

\* C6: right after logout() the credential store is empty and the session is
\* Unauthenticated with every field reset; logout is possible in every
\* session state.
C6_Logout ==
    /\ ev.op = "logout" =>
          /\ tiktok_tokens = NullObj
          /\ authState = [isAuthenticated |-> FALSE, accessToken |-> NullStr,
                          advertiserId |-> NullStr, user |-> NullObj,
                          loading |-> FALSE, error |-> NullStr]
    /\ Interactive => ENABLED logout

C6_Witness ==
    /\ ev.op = "logout"
    /\ ev.before.isAuthenticated
    /\ inflight # {}

\* C7: when the profile fetch for a stored, valid credential fails during
\* bootstrap, the credential is removed from the store, the session is
\* Unauthenticated, and bootstrap is over (no second fetch is awaited).
C7_BootstrapFetchFailure ==
    ev.op = "initAuthDone" /\ ev.via = "stored" /\ ~ev.ok =>
        /\ tiktok_tokens = NullObj
        /\ authState = Unauthenticated
        /\ boot.phase = "done"

C7_Witness ==
    /\ ev.op = "initAuthDone" /\ ev.via = "stored" /\ ~ev.ok
    /\ ~authState.isAuthenticated

\* C8 as stated: bootstrap ends Authenticated only when the profile fetch for
\* a stored valid credential succeeded.
C8_Original ==
    ev.op = "initAuthDone" /\ authState.isAuthenticated => ev.via = "stored" /\ ev.ok

\* C8 amended: bootstrap starts in Loading; a stored credential that fails
\* isTokenValid is removed; in real API mode a bootstrap that finds no valid
\* credential ends Unauthenticated, and bootstrap ends Authenticated only
\* after the profile fetch for a stored valid credential succeeded; in mock
\* API mode a bootstrap that finds no usable credential goes on to
\* authenticate with the built-in mock token.
C8_Bootstrap ==
    /\ page = "mounted" /\ boot.phase = "pending" =>
          authState.loading /\ ~authState.isAuthenticated
    /\ ev.op = "initAuthStart" /\ ev.tokens = NullObj =>
          /\ apiMode = "real" => authState = Unauthenticated /\ boot.phase = "done"
          /\ apiMode = "mock" => boot.phase = "fetchMock" /\ ~authState.isAuthenticated
          /\ ev.item \notin {NullObj, [json |-> "invalid"]} => tiktok_tokens = NullObj
    /\ ev.op = "initAuthStart" /\ IsObjectText(ev.item) =>
          LET c == JSON_parse(ev.item)
          IN (now >= c.timestamp + c.expires_in * 1000 - 300000)
                => ev.tokens = NullObj /\ tiktok_tokens = NullObj
    /\ ev.op = "initAuthDone" /\ authState.isAuthenticated =>
          \/ ev.via = "stored" /\ ev.ok
          \/ /\ apiMode = "mock" /\ ev.via = "mock"
             /\ authState.accessToken = "mock_token_for_testing_12345"

C8_Witness ==
    /\ ev.op = "initAuthStart" /\ IsObjectText(ev.item)
    /\ ev.tokens = NullObj /\ tiktok_tokens = NullObj
    /\ apiMode = "real" /\ authState = Unauthenticated

-----------------------------------------------------------------------------
(* Properties of the token store (oauth.ts), checked under SpecStore *)

\* C9: isTokenValid(c) is true exactly when c is not null and
\* now < timestamp + expires_in*1000 - 300000.
C9_IsTokenValid ==
    fnOut.fn = "isTokenValid" =>
        fnOut.ret = (IF fnIn = NullObj THEN FALSE
                     ELSE now < fnIn.timestamp + fnIn.expires_in * 1000 - 300000)

\* the call made exactly at the buffer edge
C9_Witness ==
    /\ fnOut.fn = "isTokenValid" /\ fnIn # NullObj
    /\ now = fnIn.timestamp + fnIn.expires_in * 1000 - 300000
    /\ fnOut.ret = FALSE

\* C10 as stated: storeTokens(c) immediately followed by getStoredTokens()
\* returns c, for every credential c.
C10_Original ==
    fnOut.fn = "getStoredTokens" /\ fnOut.after = "storeTokens" => fnOut.ret = fnIn

\* C10 amended: storeTokens(c) immediately followed by getStoredTokens()
\* returns a value equal to c in all fields when c is still valid
\* (now < timestamp + expires_in*1000 - 300000) and leaves it stored;
\* otherwise it returns null and removes the stored credential.
C10_RoundTrip ==
    fnOut.fn = "getStoredTokens" /\ fnOut.after = "storeTokens" =>
        IF now < fnIn.timestamp + fnIn.expires_in * 1000 - 300000
        THEN fnOut.ret = fnIn /\ IsObjectText(tiktok_tokens)
        ELSE fnOut.ret = NullObj /\ tiktok_tokens = NullObj

C10_Witness ==
    /\ fnOut.fn = "getStoredTokens" /\ fnOut.after = "storeTokens"
    /\ "refreshToken" \in DOMAIN fnIn /\ "advertiser_id" \in DOMAIN fnIn
    /\ fnOut.ret = fnIn

-----------------------------------------------------------------------------
(* JavaScript strings and values, as far as the error classifier reads them *)

\* a property holding a number where a string is expected
Number42 == "<number 42>"

UpperCase == "ABCDEFGHIJKLMNOPQRSTUVWXYZ"
LowerCase == "abcdefghijklmnopqrstuvwxyz"

\* String.prototype.includes
includes(s, sub) ==
    \E i \in 1..(Len(s) - Len(sub) + 1) : SubSeq(s, i, i + Len(sub) - 1) = sub

\* the lower-case letter of every upper-case letter
LowerCaseOf ==
    [c \in {SubSeq(UpperCase, i, i) : i \in 1..Len(UpperCase)} |->
        LET i == CHOOSE j \in 1..Len(UpperCase) : SubSeq(UpperCase, j, j) = c
        IN SubSeq(LowerCase, i, i)]

toLowerCase_char(c) == IF c \in DOMAIN LowerCaseOf THEN LowerCaseOf[c] ELSE c

\* String.prototype.toLowerCase
RECURSIVE toLowerCase(_)
toLowerCase(s) ==
    IF Len(s) = 0 THEN ""
    ELSE toLowerCase_char(SubSeq(s, 1, 1)) \o toLowerCase(SubSeq(s, 2, Len(s)))

\* typeof v === "string"
isString(v) == v \notin {NullStr, Number42}

\* the operand of ||: null, undefined and "" are falsy
truthy(v) == v \notin {NullStr, ""}

\* a thrown or returned error value is null, a primitive, or an object
\* [name, code, message] with an optional data member; name is the
\* constructor ("Object" for an object literal), and a code or message of
\* NullStr is a property the object does not have
isObject(error) == error # NullObj /\ error.name # "string"

instanceofTypeError(error) == isObject(error) /\ error.name = "TypeError"

\* "key" in error
hasProperty(error, key) == error[key] # NullStr

\* error.data?.error_code and error.data?.description
data_error_code(error) ==
    IF "data" \in DOMAIN error THEN error.data.error_code ELSE NullStr

data_description(error) ==
    IF "data" \in DOMAIN error THEN error.data.description ELSE NullStr

-----------------------------------------------------------------------------
(* src/utils/constants.ts ERROR_CODES, src/utils/errorMessages.ts *)

ERROR_CODES ==
    [INVALID_CLIENT |-> "invalid_client",
     INVALID_GRANT |-> "invalid_grant",
     EXPIRED_TOKEN |-> "expired_token",
     UNAUTHORIZED_CLIENT |-> "unauthorized_client",
     INSUFFICIENT_PERMISSIONS |-> "insufficient_permissions",
     GEO_RESTRICTED |-> "geo_restricted",
     RATE_LIMIT_EXCEEDED |-> "rate_limit_exceeded",
     INVALID_MUSIC_ID |-> "invalid_music_id",
     MUSIC_NOT_AVAILABLE |-> "music_not_available"]

isApiError(error) ==
    isObject(error) /\ hasProperty(error, "code") /\ hasProperty(error, "message")

NetworkErrorDescriptor ==
    [type |-> "NETWORK_ERROR", title |-> "Connection Error",
     message |-> "Unable to connect to TikTok servers. Please check your internet connection and try again.",
     action |-> "Retry", canRetry |-> TRUE]

InvalidCredentialsDescriptor ==
    [type |-> "OAUTH_INVALID_CREDENTIALS", title |-> "Invalid Credentials",
     message |-> "Your TikTok App credentials are invalid. Please check your App ID and Secret in the .env file.",
     action |-> "Update credentials and reconnect", canRetry |-> FALSE]

ExpiredTokenDescriptor ==
    [type |-> "OAUTH_EXPIRED_TOKEN", title |-> "Session Expired",
     message |-> "Your TikTok session has expired. Please reconnect your account to continue.",
     action |-> "Reconnect Account", canRetry |-> TRUE]

MissingPermissionsDescriptor ==
    [type |-> "OAUTH_MISSING_PERMISSIONS", title |-> "Missing Permissions",
     message |-> "Your app doesn't have the required permissions. Please ensure \"ad_management\" and \"video_management\" scopes are enabled.",
     action |-> "Check app permissions in TikTok Developer Portal",
     canRetry |-> FALSE]

GeoRestrictionDescriptor ==
    [type |-> "OAUTH_GEO_RESTRICTION", title |-> "Region Restricted",
     message |-> "TikTok Ads API is not available in your region. This service may be restricted to certain countries.",
     action |-> "Contact TikTok support for availability", canRetry |-> FALSE]

RateLimitDescriptor ==
    [type |-> "RATE_LIMIT", title |-> "Too Many Requests",
     message |-> "You've made too many requests. Please wait a moment before trying again.",
     action |-> "Wait 60 seconds and retry", canRetry |-> TRUE]

MusicInvalidIdDescriptor ==
    [type |-> "MUSIC_INVALID_ID", title |-> "Invalid Music ID",
     message |-> "The music ID you entered doesn't exist in TikTok's library. Please check the ID and try again.",
     action |-> "Verify music ID", canRetry |-> TRUE]

MusicNotAvailableDescriptor ==
    [type |-> "MUSIC_NOT_AVAILABLE", title |-> "Music Not Available",
     message |-> "This music is not available for use in ads. Please select a different track.",
     action |-> "Choose different music", canRetry |-> TRUE]

\* error.data?.description || error.message || "An unexpected error ..."
GenericApiErrorDescriptor(error) ==
    [type |-> "UNKNOWN_ERROR", title |-> "Something Went Wrong",
     message |-> IF truthy(data_description(error)) THEN data_description(error)
                 ELSE IF truthy(error.message) THEN error.message
                 ELSE "An unexpected error occurred. Please try again.",
     action |-> "Retry", canRetry |-> TRUE]

DefaultUnknownDescriptor ==
    [type |-> "UNKNOWN_ERROR", title |-> "Unexpected Error",
     message |-> "An unexpected error occurred. Please try again or contact support if the issue persists.",
     action |-> "Retry", canRetry |-> TRUE]

\* what a call evaluates to when it throws instead of returning
Thrown(name) == [threw |-> name]

\* the conditions of the if statements of the isApiError branch, in the
\* order of the source; lowerMessage is error.message.toLowerCase()
ClassifierRules ==
    <<"InvalidCredentials", "ExpiredSession", "MissingPermissions",
      "GeoRestricted", "RateLimited", "InvalidMusicId", "MusicUnavailable",
      "Unknown">>

RuleMatches(rule, error, errorCode, lowerMessage) ==
    CASE rule = "InvalidCredentials" ->
            \/ error.code = ERROR_CODES.INVALID_CLIENT
            \/ includes(lowerMessage, "invalid client")
      [] rule = "ExpiredSession" ->
            \/ error.code = ERROR_CODES.INVALID_GRANT
            \/ errorCode = ERROR_CODES.EXPIRED_TOKEN
      [] rule = "MissingPermissions" ->
            \/ error.code = ERROR_CODES.UNAUTHORIZED_CLIENT
            \/ errorCode = ERROR_CODES.INSUFFICIENT_PERMISSIONS
      [] rule = "GeoRestricted" ->
            \/ errorCode = ERROR_CODES.GEO_RESTRICTED
            \/ includes(error.message, "geo")
      [] rule = "RateLimited" ->
            \/ errorCode = ERROR_CODES.RATE_LIMIT_EXCEEDED
            \/ includes(lowerMessage, "rate limit")
      [] rule = "InvalidMusicId" ->
            \/ errorCode = ERROR_CODES.INVALID_MUSIC_ID
            \/ includes(lowerMessage, "music")
      [] rule = "MusicUnavailable" ->
            errorCode = ERROR_CODES.MUSIC_NOT_AVAILABLE
      [] OTHER -> TRUE

RuleDescriptor(rule, error) ==
    CASE rule = "InvalidCredentials" -> InvalidCredentialsDescriptor
      [] rule = "ExpiredSession" -> ExpiredTokenDescriptor
      [] rule = "MissingPermissions" -> MissingPermissionsDescriptor
      [] rule = "GeoRestricted" -> GeoRestrictionDescriptor
      [] rule = "RateLimited" -> RateLimitDescriptor
      [] rule = "InvalidMusicId" -> MusicInvalidIdDescriptor
      [] rule = "MusicUnavailable" -> MusicNotAvailableDescriptor
      [] OTHER -> GenericApiErrorDescriptor(error)

mapApiErrorToUserError(error) ==
    IF instanceofTypeError(error) /\ includes(error.message, "fetch")
    THEN NetworkErrorDescriptor
    ELSE IF isApiError(error)
    THEN IF ~isString(error.message)
         THEN Thrown("TypeError")   \* error.message.toLowerCase is not a function
         ELSE LET errorCode == data_error_code(error)
                  lowerMessage == toLowerCase(error.message)
                  M(r) == RuleMatches(r, error, errorCode, lowerMessage)
              IN IF M("InvalidCredentials") THEN RuleDescriptor("InvalidCredentials", error)
                 ELSE IF M("ExpiredSession") THEN RuleDescriptor("ExpiredSession", error)
                 ELSE IF M("MissingPermissions") THEN RuleDescriptor("MissingPermissions", error)
                 ELSE IF M("GeoRestricted") THEN RuleDescriptor("GeoRestricted", error)
                 ELSE IF M("RateLimited") THEN RuleDescriptor("RateLimited", error)
                 ELSE IF M("InvalidMusicId") THEN RuleDescriptor("InvalidMusicId", error)
                 ELSE IF M("MusicUnavailable") THEN RuleDescriptor("MusicUnavailable", error)
                 ELSE RuleDescriptor("Unknown", error)
    ELSE DefaultUnknownDescriptor

getOAuthFriendlyError(errorCode) ==
    IF errorCode = "access_denied"
    THEN [type |-> "OAUTH_INVALID_CREDENTIALS", title |-> "Connection Cancelled",
          message |-> "You cancelled the TikTok connection. That's okay! Click 'Connect TikTok Ads Account' to try again.",
          action |-> "Click the Connect button above to retry", canRetry |-> TRUE]
    ELSE IF errorCode = "missing_code"
    THEN [type |-> "OAUTH_INVALID_CREDENTIALS", title |-> "Connection Failed",
          message |-> "We couldn't receive authorization from TikTok. This might be a temporary issue.",
          action |-> "Please try connecting again", canRetry |-> TRUE]
    ELSE IF errorCode = "invalid_state"
    THEN [type |-> "OAUTH_INVALID_CREDENTIALS", title |-> "Security Check Failed",
          message |-> "The connection was interrupted for security reasons. Please start fresh.",
          action |-> "Click Connect TikTok Ads Account to try again", canRetry |-> TRUE]
    ELSE IF errorCode = "oauth_failed"
    THEN [type |-> "OAUTH_INVALID_CREDENTIALS", title |-> "Connection Error",
          message |-> "Something went wrong while connecting to TikTok. Please try again.",
          action |-> "Click Connect TikTok Ads Account", canRetry |-> TRUE]
    ELSE [type |-> "UNKNOWN_ERROR", title |-> "Unexpected Error",
          message |-> "An unexpected error occurred during connection. Please try again.",
          action |-> "Click Connect TikTok Ads Account", canRetry |-> TRUE]

-----------------------------------------------------------------------------
(* mapApiErrorToUserError called in isolation on the values that can reach it *)

ApiCodes ==
    {"invalid_client", "invalid_grant", "unauthorized_client", "40001", "40002",
     "40104", "network_error", NullStr}

ApiMessages ==
    {"Rate limit exceeded", "access_token_expired", "Invalid Client secret",
     "Music is not available in this region", "geo restricted", "Geo blocked",
     "Invalid auth code",
     "Network request failed. Please check your connection.",
     "", Number42, NullStr}

ApiData ==
    [error_code : {ERROR_CODES.EXPIRED_TOKEN, ERROR_CODES.INSUFFICIENT_PERMISSIONS,
                   ERROR_CODES.GEO_RESTRICTED, ERROR_CODES.RATE_LIMIT_EXCEEDED,
                   ERROR_CODES.INVALID_MUSIC_ID, ERROR_CODES.MUSIC_NOT_AVAILABLE,
                   NullStr},
     description : {"Upstream description", NullStr}]

\* object literals, with and without a data member
ObjectInputs ==
    LET plain == [name : {"Object"}, code : ApiCodes, message : ApiMessages]
    IN plain \cup
       {[name |-> e.name, code |-> e.code, message |-> e.message, data |-> d] :
            e \in plain, d \in ApiData}

\* Error instances: the failures fetch rejects with in different browsers,
\* response.json() failing, the state mismatch of handleOAuthCallback
ErrorInputs ==
    {[name |-> "TypeError", code |-> NullStr, message |-> "Failed to fetch"],
     [name |-> "TypeError", code |-> NullStr, message |-> "Load failed"],
     [name |-> "TypeError", code |-> NullStr,
      message |-> "NetworkError when attempting to fetch resource."],
     [name |-> "SyntaxError", code |-> NullStr, message |-> "Unexpected token"],
     CsrfError}

\* a thrown string
StringInput == [name |-> "string", code |-> NullStr, message |-> NullStr]

ClassifierInputs ==
    ObjectInputs \cup ErrorInputs \cup ExchangeErrors \cup ApiRequestErrors
        \cup {NullObj, StringInput}

InitClassify ==
    /\ apiMode = "real"
    /\ now = 0
    /\ page = "mounted"
    /\ oauth_state = NullStr
    /\ tiktok_tokens = NullObj
    /\ authState = InitialAuthState
    /\ boot = BootIdle
    /\ inflight = {}
    /\ ev = [op |-> "none"]
    /\ fnIn \in ClassifierInputs
    /\ fnOut = [fn |-> "none"]
    /\ form = FormIdle
    /\ music = MusicIdle
    /\ route = RouteIdle

CallMapApiErrorToUserError ==
    /\ fnOut.fn = "none"
    /\ fnOut' = [fn |-> "mapApiErrorToUserError",
                 ret |-> mapApiErrorToUserError(fnIn)]
    /\ UNCHANGED <<now, tiktok_tokens, fnIn, route>>
    /\ StoreFrame

NextClassify == CallMapApiErrorToUserError

SpecClassify == InitClassify /\ [][NextClassify]_vars

-----------------------------------------------------------------------------
(* src/services/tiktokApi.ts: apiRequest and the four operations, as         *)
(* functions of what fetch and response.json() produce                      *)

\* how an awaited call ends
Returned(value) == [returned |-> value]
Rejected(error) == [rejected |-> error]

MOCK_MUSIC_IDS == {"1234567890123456", "9876543210987654"}

\* data.data of a response with code 0; each operation reads its own members
ResponseData ==
    [advertiser_id |-> "ADV_1", advertiser_name |-> "Acme",
     title |-> "Song", artist |-> "Band", ad_id |-> "AD_1"]

\* parsed response bodies {code, message, data}; code is the decimal text of
\* the number sent, NullStr a member the body does not have
ResponseBodies ==
    {[code |-> "0", message |-> "OK", data |-> ResponseData]}
        \cup [code : {"40104", "40002", NullStr},
              message : {"access_token_expired", "Rate limit exceeded", NullStr,
                         Number42},
              data : {NullObj, [error_code |-> "expired_token",
                                description |-> NullStr]}]

\* what `await fetch(...)` followed by `await response.json()` can do
FetchOutcomes ==
    {[kind |-> "reject", error |-> e] :
        e \in {[name |-> "TypeError", code |-> NullStr, message |-> "Failed to fetch"],
               [name |-> "TypeError", code |-> NullStr, message |-> "Load failed"]}}
        \cup {[kind |-> "badjson",
               error |-> [name |-> "SyntaxError", code |-> NullStr,
                          message |-> "Unexpected token"]]}
        \cup {[kind |-> "json", body |-> b] : b \in ResponseBodies}

\* the ApiError built from a body whose code is not 0
apiRequest_error(data) ==
    LET code == IF truthy(data.code) THEN data.code ELSE "api_error"
        message == IF truthy(data.message) THEN data.message
                   ELSE "API request failed"
    IN IF data.data = NullObj
       THEN [name |-> "Object", code |-> code, message |-> message]
       ELSE [name |-> "Object", code |-> code, message |-> message,
             data |-> data.data]

networkError ==
    [name |-> "Object", code |-> "network_error",
     message |-> "Network request failed. Please check your connection."]

\* the catch block of apiRequest
apiRequest_catch(error) ==
    IF isApiError(error) THEN Rejected(error)
    ELSE IF instanceofTypeError(error) THEN Rejected(networkError)
    ELSE Rejected(error)

apiRequest(fetched) ==
    IF fetched.kind # "json" THEN apiRequest_catch(fetched.error)
    ELSE IF fetched.body.code # "0"
    THEN apiRequest_catch(apiRequest_error(fetched.body))
    ELSE Returned(fetched.body.data)

mockValidateMusicId(musicId) ==
    IF musicId \in MOCK_MUSIC_IDS
    THEN [valid |-> TRUE, music_id |-> musicId, title |-> "Sample Track",
          artist |-> "Sample Artist"]
    ELSE [valid |-> FALSE, music_id |-> musicId,
          error |-> "Music ID not found in TikTok library"]

validateMusicId(mode, musicId, fetched) ==
    IF mode = "mock" THEN Returned(mockValidateMusicId(musicId))
    ELSE LET r == apiRequest(fetched)
         IN IF "returned" \in DOMAIN r
            THEN Returned([valid |-> TRUE, music_id |-> musicId,
                           title |-> r.returned.title,
                           artist |-> r.returned.artist])
            ELSE IF isApiError(r.rejected)
            THEN Returned([valid |-> FALSE, music_id |-> musicId,
                           error |-> r.rejected.message])
            ELSE r

\* shouldFail is Math.random() < 0.1, t is Date.now()
mockCreateAd(shouldFail, t) ==
    IF shouldFail
    THEN [success |-> FALSE,
          error |-> [name |-> "Object", code |-> "40002",
                     message |-> "Rate limit exceeded"]]
    ELSE [success |-> TRUE, ad_id |-> <<"AD_", t>>]

createAd(mode, fetched, shouldFail, t) ==
    IF mode = "mock" THEN Returned(mockCreateAd(shouldFail, t))
    ELSE LET r == apiRequest(fetched)
         IN IF "returned" \in DOMAIN r
            THEN Returned([success |-> TRUE, ad_id |-> r.returned.ad_id])
            ELSE IF isApiError(r.rejected)
            THEN Returned([success |-> FALSE, error |-> r.rejected])
            ELSE r

\* getAdvertiserInfo for one outcome of its request
getAdvertiserInfo_fetched(mode, fetched) ==
    IF mode = "mock" THEN Returned(mockGetAdvertiserInfo)
    ELSE LET r == apiRequest(fetched)
         IN IF "returned" \in DOMAIN r
            THEN Returned([advertiser_id |-> r.returned.advertiser_id,
                           advertiser_name |-> r.returned.advertiser_name])
            ELSE r

\* uploadMusic sends nothing: `UPLOAD_${Date.now()}${Math.floor(Math.random() * 10000)}`
uploadMusic(t, random) == Returned(<<"UPLOAD_", t, random>>)

\* whether an operation awaits apiRequest at all
SendsRequest(mode, op) == mode # "mock" /\ op # "uploadMusic"

-----------------------------------------------------------------------------
(* The four operations called in isolation *)

GatewayOps == {"getAdvertiserInfo", "validateMusicId", "createAd", "uploadMusic"}

GatewayInputs ==
    [op : GatewayOps,
     musicId : MOCK_MUSIC_IDS \cup {"1111111111"},
     fetched : FetchOutcomes,
     random : {0, 9999}]

InitGateway ==
    /\ apiMode \in {"real", "mock"}
    /\ now = 0
    /\ page = "mounted"
    /\ oauth_state = NullStr
    /\ tiktok_tokens = NullObj
    /\ authState = InitialAuthState
    /\ boot = BootIdle
    /\ inflight = {}
    /\ ev = [op |-> "none"]
    /\ fnIn \in GatewayInputs
    /\ fnOut = [fn |-> "none"]
    /\ form = FormIdle
    /\ music = MusicIdle
    /\ route = RouteIdle

GatewayFrame == UNCHANGED <<now, tiktok_tokens, fnIn, route>> /\ StoreFrame

CallGetAdvertiserInfo ==
    /\ fnOut.fn = "none" /\ fnIn.op = "getAdvertiserInfo"
    /\ fnOut' = [fn |-> fnIn.op,
                 ret |-> getAdvertiserInfo_fetched(apiMode, fnIn.fetched)]
    /\ GatewayFrame

CallValidateMusicId ==
    /\ fnOut.fn = "none" /\ fnIn.op = "validateMusicId"
    /\ fnOut' = [fn |-> fnIn.op,
                 ret |-> validateMusicId(apiMode, fnIn.musicId, fnIn.fetched)]
    /\ GatewayFrame

CallCreateAd ==
    /\ fnOut.fn = "none" /\ fnIn.op = "createAd"
    /\ fnOut' = [fn |-> fnIn.op,
                 ret |-> createAd(apiMode, fnIn.fetched, fnIn.random < 1000, now)]
    /\ GatewayFrame

CallUploadMusic ==
    /\ fnOut.fn = "none" /\ fnIn.op = "uploadMusic"
    /\ fnOut' = [fn |-> fnIn.op, ret |-> uploadMusic(now, fnIn.random)]
    /\ GatewayFrame

NextGateway ==
    \/ CallGetAdvertiserInfo
    \/ CallValidateMusicId
    \/ CallCreateAd
    \/ CallUploadMusic

SpecGateway == InitGateway /\ [][NextGateway]_vars

-----------------------------------------------------------------------------
(* src/services/validation.ts with the VALIDATION_RULES and VALIDATION_ERRORS *)
(* it is compiled against (the constants module that has musicId.pattern)    *)

\* String.prototype.trim, for the blank the inputs can hold
RECURSIVE trim(_)
trim(s) ==
    IF Len(s) = 0 THEN s
    ELSE IF SubSeq(s, 1, 1) = " " THEN trim(SubSeq(s, 2, Len(s)))
    ELSE IF SubSeq(s, Len(s), Len(s)) = " " THEN trim(SubSeq(s, 1, Len(s) - 1))
    ELSE s

Digits == "0123456789"

\* /^[0-9]{10,20}$/.test(s)
musicId_pattern_test(s) ==
    /\ Len(s) >= 10 /\ Len(s) <= 20
    /\ \A i \in 1..Len(s) : includes(Digits, SubSeq(s, i, i))

VALIDATION_RULES ==
    [campaignName |-> [minLength |-> 3, maxLength |-> 100],
     adText |-> [maxLength |-> 100]]

VALIDATION_ERRORS ==
    [campaignName |->
        [required |-> "Campaign name is required",
         minLength |-> "Campaign name must be at least 3 characters",
         maxLength |-> "Campaign name must not exceed 100 characters"],
     objective |-> [required |-> "Please select a campaign objective"],
     adText |->
        [required |-> "Ad text is required",
         maxLength |-> "Ad text must not exceed 100 characters"],
     cta |-> [required |-> "Please select a call-to-action"],
     musicOption |->
        [required |-> "Please select a music option",
         invalidForObjective |-> "Music is required for Conversions campaigns"],
     musicId |->
        [required |-> "Music ID is required",
         invalid |-> "Music ID must be a 10-20 digit number"],
     uploadedMusicFile |->
        [required |-> "Please upload a music file",
         invalidType |-> "Please upload a valid audio file (MP3, WAV, or M4A)",
         tooLarge |-> "File size must not exceed 10MB"]]

validTypes == {"audio/mpeg", "audio/wav", "audio/mp4", "audio/x-m4a"}

maxSize == 10 * 1024 * 1024

\* errors[key] = message
SetError(errors, key, message) ==
    [k \in DOMAIN errors \cup {key} |-> IF k = key THEN message ELSE errors[k]]

\* delete errors[key]
DeleteError(errors, key) == [k \in DOMAIN errors \ {key} |-> errors[k]]

validate_campaignName_Inclusive(formData, errors) ==
    IF trim(formData.campaignName) = ""
    THEN SetError(errors, "campaignName", VALIDATION_ERRORS.campaignName.required)
    ELSE IF Len(formData.campaignName) <= VALIDATION_RULES.campaignName.minLength
    THEN SetError(errors, "campaignName", VALIDATION_ERRORS.campaignName.minLength)
    ELSE IF Len(formData.campaignName) >= VALIDATION_RULES.campaignName.maxLength
    THEN SetError(errors, "campaignName", VALIDATION_ERRORS.campaignName.maxLength)
    ELSE errors

validate_campaignName(formData, errors) ==
    IF trim(formData.campaignName) = ""
    THEN SetError(errors, "campaignName", VALIDATION_ERRORS.campaignName.required)
    ELSE IF Len(formData.campaignName) < VALIDATION_RULES.campaignName.minLength
    THEN SetError(errors, "campaignName", VALIDATION_ERRORS.campaignName.minLength)
    ELSE IF Len(formData.campaignName) > VALIDATION_RULES.campaignName.maxLength
    THEN SetError(errors, "campaignName", VALIDATION_ERRORS.campaignName.maxLength)
    ELSE errors

validate_objective(formData, errors) ==
    IF formData.objective = ""
    THEN SetError(errors, "objective", VALIDATION_ERRORS.objective.required)
    ELSE errors

validate_adText(formData, errors) ==
    IF trim(formData.adText) = ""
    THEN SetError(errors, "adText", VALIDATION_ERRORS.adText.required)
    ELSE IF Len(formData.adText) > VALIDATION_RULES.adText.maxLength
    THEN SetError(errors, "adText", VALIDATION_ERRORS.adText.maxLength)
    ELSE errors

validate_cta(formData, errors) ==
    IF formData.cta = ""
    THEN SetError(errors, "cta", VALIDATION_ERRORS.cta.required)
    ELSE errors

validate_musicOption_AnyObjective(formData, errors) ==
    IF formData.musicOption = "" \/ formData.musicOption = "none"
    THEN SetError(errors, "musicOption",
                  VALIDATION_ERRORS.musicOption.invalidForObjective)
    ELSE errors

validate_musicOption(formData, errors) ==
    LET e1 == IF formData.musicOption = ""
              THEN SetError(errors, "musicOption",
                            VALIDATION_ERRORS.musicOption.required)
              ELSE errors
    IN IF formData.objective = "CONVERSIONS" /\ formData.musicOption = "none"
       THEN SetError(e1, "musicOption",
                     VALIDATION_ERRORS.musicOption.invalidForObjective)
       ELSE e1

validate_musicId(formData, errors) ==
    IF formData.musicOption # "existing" THEN errors
    ELSE IF trim(formData.musicId) = ""
    THEN SetError(errors, "musicId", VALIDATION_ERRORS.musicId.required)
    ELSE IF ~musicId_pattern_test(formData.musicId)
    THEN SetError(errors, "musicId", VALIDATION_ERRORS.musicId.invalid)
    ELSE errors

validate_uploadedMusicFile_Strict(formData, errors) ==
    IF formData.musicOption # "upload" THEN errors
    ELSE IF formData.uploadedMusicFile = NoFile
    THEN SetError(errors, "uploadedMusicFile",
                  VALIDATION_ERRORS.uploadedMusicFile.required)
    ELSE IF formData.uploadedMusicFile.type \notin validTypes
    THEN SetError(errors, "uploadedMusicFile",
                  VALIDATION_ERRORS.uploadedMusicFile.invalidType)
    ELSE IF formData.uploadedMusicFile.size >= maxSize
    THEN SetError(errors, "uploadedMusicFile",
                  VALIDATION_ERRORS.uploadedMusicFile.tooLarge)
    ELSE errors

validate_uploadedMusicFile(formData, errors) ==
    IF formData.musicOption # "upload" THEN errors
    ELSE IF formData.uploadedMusicFile = NoFile
    THEN SetError(errors, "uploadedMusicFile",
                  VALIDATION_ERRORS.uploadedMusicFile.required)
    ELSE LET file == formData.uploadedMusicFile
             e1 == IF file.type \notin validTypes
                   THEN SetError(errors, "uploadedMusicFile",
                                 VALIDATION_ERRORS.uploadedMusicFile.invalidType)
                   ELSE errors
         IN IF file.size > maxSize
            THEN SetError(e1, "uploadedMusicFile",
                          VALIDATION_ERRORS.uploadedMusicFile.tooLarge)
            ELSE e1

validateAdForm(formData) ==
    validate_uploadedMusicFile(formData,
      validate_musicId(formData,
        validate_musicOption(formData,
          validate_cta(formData,
            validate_adText(formData,
              validate_objective(formData,
                validate_campaignName(formData, <<>>)))))))

\* Object.keys(errors).length > 0
hasErrors_Never(errors) == FALSE

hasErrors(errors) == DOMAIN errors # {}

-----------------------------------------------------------------------------
(* MusicSelector: the effects that run after a render, the debounce timer,   *)
(* handleValidateMusicId                                                    *)

\* clearTimeout(timer)
clearTimeout_Noop(timers, timer) == timers
clearTimeout(timers, timer) == timers \ {timer}

debounceDelay == 500

\* edits in a row that are counted
MaxBurst == 3

\* the effect on [musicId, musicOption, accessToken]: its condition
debounceCondition(formData, accessToken) ==
    /\ formData.musicOption = "existing"
    /\ truthy(formData.musicId)
    /\ truthy(accessToken)

\* the effects after a render that replaced formData prev by next at time t:
\* the [musicOption] effect resets the validation result; the debounce effect
\* runs the cleanup of its previous run and may set a new timer, whose
\* callback closes over the musicId and accessToken of this render
MusicEffects(m, prev, next, accessToken, t) ==
    LET optionChanged == next.musicOption # prev.musicOption
        idChanged == next.musicId # prev.musicId
        timer == [due |-> t + debounceDelay, musicId |-> next.musicId,
                  accessToken |-> accessToken]
        cleaned == IF m.timer = NullObj THEN m.timers
                   ELSE clearTimeout(m.timers, m.timer)
    IN IF ~optionChanged /\ ~idChanged THEN m
       ELSE [m EXCEPT
               !.musicValidationResult =
                    IF optionChanged THEN NullObj ELSE @,
               !.timer = IF debounceCondition(next, accessToken)
                         THEN timer ELSE NullObj,
               !.timers = IF debounceCondition(next, accessToken)
                          THEN cleaned \cup {timer} ELSE cleaned,
               !.hist = [changedAt |-> t, byInput |-> idChanged /\ ~optionChanged,
                         burst |-> IF optionChanged \/ ~idChanged THEN 0
                                   ELSE IF /\ m.hist.byInput
                                           /\ t - m.hist.changedAt < debounceDelay
                                           /\ m.hist.burst < MaxBurst
                                        THEN m.hist.burst + 1
                                   ELSE IF /\ m.hist.byInput
                                           /\ t - m.hist.changedAt < debounceDelay
                                        THEN m.hist.burst
                                   ELSE 1,
                         sent |-> {}]]

\* the texts setMusicValidationResult is called with; "(check)" stands for
\* the check mark character
validationMessage(result) ==
    IF result.valid
    THEN [valid |-> TRUE,
          message |-> IF truthy(result.title)
                      THEN "(check) \"" \o result.title \o "\" by " \o result.artist
                      ELSE "(check) Music ID is valid"]
    ELSE [valid |-> FALSE,
          message |-> IF truthy(result.error) THEN result.error
                      ELSE "Music ID not found"]

\* the timer callback: handleValidateMusicId up to its await
handleValidateMusicId(timer) ==
    /\ timer \in music.timers
    /\ timer.due <= now
    /\ IF ~truthy(timer.musicId) \/ ~truthy(timer.accessToken)
       THEN music' = [music EXCEPT !.timers = @ \ {timer}]
       ELSE music' = [music EXCEPT
                        !.timers = @ \ {timer},
                        !.validatingMusic = TRUE,
                        !.musicValidationResult = NullObj,
                        !.pending = @ \cup {[musicId |-> timer.musicId,
                                             sentAt |-> now]},
                        !.hist.sent = @ \cup {[musicId |-> timer.musicId,
                                               at |-> now]}]
    /\ ev' = [op |-> "handleValidateMusicId", musicId |-> timer.musicId]
    /\ UNCHANGED <<apiMode, now, page, oauth_state, tiktok_tokens, authState,
                   boot, inflight, fnIn, fnOut, form, route>>

mockValidateDelay == 800

\* the ways validateMusicId(musicId, accessToken) can settle
validateMusicId_outcomes(mode, musicId) ==
    {validateMusicId(mode, musicId, fetched) : fetched \in FetchOutcomes}

\* validateMusicId(musicId, accessToken) settles with r: the rest of
\* handleValidateMusicId, try, catch and finally
ValidateMusicIdSettled(call, r) ==
    /\ call \in music.pending
    /\ apiMode = "mock" => now >= call.sentAt + mockValidateDelay
    /\ LET shown == IF "returned" \in DOMAIN r THEN validationMessage(r.returned)
                    ELSE [valid |-> FALSE,
                          message |-> "Failed to validate music ID"]
       IN /\ music' = [music EXCEPT !.pending = @ \ {call},
                                    !.musicValidationResult = shown,
                                    !.validatingMusic = FALSE]
          /\ ev' = [op |-> "validateMusicIdSettled", musicId |-> call.musicId,
                    before |-> music.musicValidationResult]
    /\ UNCHANGED <<apiMode, now, page, oauth_state, tiktok_tokens, authState,
                   boot, inflight, fnIn, fnOut, form, route>>

-----------------------------------------------------------------------------
(* AdCreationForm: handleChange, handleSubmit *)

\* the state updates of handleChange(field, value), queued by a handleChange
\* that closes over the errors and the systemError of the render `seen`
handleChange_updates(f, field, value, seen) ==
    [f EXCEPT
        !.formData = [@ EXCEPT ![field] = value],
        !.errors = IF field \in DOMAIN seen.errors /\ truthy(seen.errors[field])
                   THEN DeleteError(@, field) ELSE @,
        !.systemError = IF seen.systemError # NullObj THEN NullObj ELSE @]

\* handleChange(field, value) from an input of the current render, with the
\* effects of the render it causes
handleChange(field, value) ==
    /\ value # form.formData[field]
    /\ LET next == [form.formData EXCEPT ![field] = value]
       IN /\ form' = handleChange_updates(form, field, value, form)
          /\ music' = MusicEffects(music, form.formData, next,
                                   authState.accessToken, now)
    /\ ev' = [op |-> "handleChange", field |-> field]
    /\ UNCHANGED <<apiMode, now, page, oauth_state, tiktok_tokens, authState,
                   boot, inflight, fnIn, fnOut, route>>

NotAuthenticatedError ==
    [type |-> "OAUTH_EXPIRED_TOKEN", title |-> "Not Authenticated",
     message |-> "Please connect your TikTok Ads account to continue.",
     action |-> "Click \"Connect TikTok Ads Account\" above", canRetry |-> FALSE]

\* handleSubmit up to its await
handleSubmit ==
    /\ ~form.submitting
    /\ LET validationErrors == validateAdForm(form.formData)
           accessToken == authState.accessToken
       IN IF hasErrors(validationErrors)
          THEN /\ form' = [form EXCEPT !.systemError = NullObj, !.success = FALSE,
                                       !.errors = validationErrors]
               /\ ev' = [op |-> "handleSubmit", sent |-> FALSE]
          ELSE IF ~truthy(accessToken)
          THEN /\ form' = [form EXCEPT !.systemError = NotAuthenticatedError,
                                       !.success = FALSE]
               /\ ev' = [op |-> "handleSubmit", sent |-> FALSE]
          ELSE /\ form' = [form EXCEPT
                             !.systemError = NullObj, !.success = FALSE,
                             !.submitting = TRUE,
                             !.pending = @ \cup {[formData |-> form.formData,
                                                  accessToken |-> accessToken]}]
               /\ ev' = [op |-> "handleSubmit", sent |-> TRUE]
    /\ UNCHANGED <<apiMode, now, page, oauth_state, tiktok_tokens, authState,
                   boot, inflight, fnIn, fnOut, music, route>>

\* what error.message.toLowerCase() throws inside mapApiErrorToUserError
toLowerCaseTypeError ==
    [name |-> "TypeError", code |-> NullStr,
     message |-> "error.message.toLowerCase is not a function"]

systemErrorAfter_Keep(r, systemError) == systemError

\* the system error after createAd settled with r: the else-if branch of the
\* try block, whose exception lands in the catch block, and the catch block
systemErrorAfter(r, systemError) ==
    LET caught(error) ==
            LET d == mapApiErrorToUserError(error)
            IN IF "threw" \in DOMAIN d THEN systemError ELSE d
    IN IF "rejected" \in DOMAIN r THEN caught(r.rejected)
       ELSE IF "error" \in DOMAIN r.returned
       THEN LET d == mapApiErrorToUserError(r.returned.error)
            IN IF "threw" \in DOMAIN d THEN caught(toLowerCaseTypeError) ELSE d
       ELSE systemError

successDismissDelay == 5000

\* the ways createAd(formData, accessToken) can settle at time t
createAd_outcomes(mode, t) ==
    {createAd(mode, fetched, shouldFail, t) :
        fetched \in FetchOutcomes, shouldFail \in BOOLEAN}

CreateAdSettled_ClearsForm(call, r) ==
    /\ call \in form.pending
    /\ LET ok == "returned" \in DOMAIN r /\ r.returned.success
       IN /\ IF ok
             THEN /\ form' = [form EXCEPT
                                !.pending = @ \ {call},
                                !.success = TRUE,
                                !.formData = InitialFormData,
                                !.errors = <<>>,
                                !.timers = @ \cup {[due |-> now + successDismissDelay]},
                                !.submitting = FALSE]
                  /\ music' = MusicEffects(music, form.formData, InitialFormData,
                                           authState.accessToken, now)
             ELSE /\ form' = [form EXCEPT
                                !.pending = @ \ {call},
                                !.systemError = systemErrorAfter(r, @),
                                !.formData = InitialFormData,
                                !.submitting = FALSE]
                  /\ music' = MusicEffects(music, form.formData, InitialFormData,
                                           authState.accessToken, now)
          /\ ev' = [op |-> "createAdSettled", result |-> r]
    /\ UNCHANGED <<apiMode, now, page, oauth_state, tiktok_tokens, authState,
                   boot, inflight, fnIn, fnOut, route>>

\* createAd(formData, accessToken) settles with r: try, catch and finally of
\* handleSubmit, and the effects of the render after setFormData
CreateAdSettled(call, r) ==
    /\ call \in form.pending
    /\ LET ok == "returned" \in DOMAIN r /\ r.returned.success
       IN /\ IF ok
             THEN /\ form' = [form EXCEPT
                                !.pending = @ \ {call},
                                !.success = TRUE,
                                !.formData = InitialFormData,
                                !.errors = <<>>,
                                !.timers = @ \cup {[due |-> now + successDismissDelay]},
                                !.submitting = FALSE]
                  /\ music' = MusicEffects(music, form.formData, InitialFormData,
                                           authState.accessToken, now)
             ELSE /\ form' = [form EXCEPT
                                !.pending = @ \ {call},
                                !.systemError = systemErrorAfter(r, @),
                                !.submitting = FALSE]
                  /\ UNCHANGED music
          /\ ev' = [op |-> "createAdSettled", result |-> r]
    /\ UNCHANGED <<apiMode, now, page, oauth_state, tiktok_tokens, authState,
                   boot, inflight, fnIn, fnOut, route>>

-----------------------------------------------------------------------------
(* The ad creation form of an authenticated session, the user filling it in *)
(* and submitting it                                                        *)

\* what the inputs of the form can be set to
FieldValues ==
    [campaignName |-> {"", "ab", "Summer Sale"},
     objective |-> {"TRAFFIC", "CONVERSIONS"},
     adText |-> {"", "Buy now"},
     musicOption |-> {"existing", "upload", "none"},
     musicId |-> {"", "12345", "1234567890123456"}]

\* sessions Home renders the form for
FormSessions ==
    {Authenticated(mockTokens(0), mockGetAdvertiserInfo)}

InitForm ==
    /\ apiMode \in {"real", "mock"}
    /\ now = 0
    /\ page = "mounted"
    /\ oauth_state = NullStr
    /\ tiktok_tokens = NullObj
    /\ authState \in FormSessions
    /\ boot = BootIdle
    /\ inflight = {}
    /\ ev = [op |-> "none"]
    /\ fnIn = NullObj
    /\ fnOut = [fn |-> "none"]
    /\ form = FormIdle
    /\ music = MusicIdle
    /\ route = RouteIdle

NextForm ==
    \/ \E field \in DOMAIN FieldValues :
          \E value \in FieldValues[field] : handleChange(field, value)
    \/ handleSubmit
    \/ \E call \in form.pending :
          \E r \in createAd_outcomes(apiMode, now) : CreateAdSettled(call, r)

SpecForm == InitForm /\ [][NextForm]_vars

-----------------------------------------------------------------------------
(* The music ID input of the form over time: edits, the debounce timer and  *)
(* the validation requests                                                   *)

\* the clock is read five times per debounce delay
TickMs == debounceDelay \div 5

\* number of clock ticks observed
MaxMusicTicks == 15

MusicIdInputs == {"", "1111111111", "1234567890123456"}

\* a timer that is due runs before the clock moves on
TimerDue ==
    \/ \E timer \in music.timers : timer.due <= now
    \/ apiMode = "mock" /\ \E call \in music.pending :
                               call.sentAt + mockValidateDelay <= now

MusicTick ==
    /\ now < MaxMusicTicks * TickMs
    /\ ~TimerDue
    /\ now' = now + TickMs
    /\ ev' = [op |-> "tick"]
    /\ UNCHANGED <<apiMode, page, oauth_state, tiktok_tokens, authState, boot,
                   inflight, fnIn, fnOut, form, music, route>>

InitMusic ==
    /\ apiMode \in {"real", "mock"}
    /\ now = 0
    /\ page = "mounted"
    /\ oauth_state = NullStr
    /\ tiktok_tokens = NullObj
    /\ authState = Authenticated(mockTokens(0), mockGetAdvertiserInfo)
    /\ boot = BootIdle
    /\ inflight = {}
    /\ ev = [op |-> "none"]
    /\ fnIn = NullObj
    /\ fnOut = [fn |-> "none"]
    /\ form = FormIdle
    /\ music = MusicIdle
    /\ route = RouteIdle

NextMusic ==
    \/ MusicTick
    \/ \E value \in MusicIdInputs : handleChange("musicId", value)
    \/ \E value \in FieldValues.musicOption : handleChange("musicOption", value)
    \/ \E timer \in music.timers : handleValidateMusicId(timer)
    \/ \E call \in music.pending :
          \E r \in validateMusicId_outcomes(apiMode, call.musicId) :
             ValidateMusicIdSettled(call, r)

SpecMusic == InitMusic /\ [][NextMusic]_vars

-----------------------------------------------------------------------------
(* validateAdForm applied to form data of every shape the inputs can give   *)

\* a string of n copies of the character c
RECURSIVE Repeat(_, _)
Repeat(c, n) == IF n = 0 THEN "" ELSE c \o Repeat(c, n - 1)

Name100 == Repeat("n", VALIDATION_RULES.campaignName.maxLength)

Name101 == Repeat("n", VALIDATION_RULES.campaignName.maxLength + 1)

\* file.type and file.size of the File objects the file input can hand over
FileTypes == validTypes \cup {"audio/ogg", "image/png", ""}

FileSizes == {0, maxSize - 1, maxSize, maxSize + 1}

Files == [type : FileTypes, size : FileSizes]

ValidateInputs ==
    [campaignName : {"", "  ", "   ", "ab", "abc", " a ", Name100, Name101},
     objective : {"TRAFFIC", "CONVERSIONS"},
     adText : {"", "Buy now"},
     cta : {"LEARN_MORE"},
     musicOption : {"existing", "upload", "none"},
     musicId : {"", "12345", "1234567890123456"},
     uploadedMusicFile : {NoFile} \cup Files]

InitValidate ==
    /\ apiMode = "real"
    /\ now = 0
    /\ page = "mounted"
    /\ oauth_state = NullStr
    /\ tiktok_tokens = NullObj
    /\ authState = InitialAuthState
    /\ boot = BootIdle
    /\ inflight = {}
    /\ ev = [op |-> "none"]
    /\ fnIn \in ValidateInputs
    /\ fnOut = [fn |-> "none"]
    /\ form = FormIdle
    /\ music = MusicIdle
    /\ route = RouteIdle

CallValidateAdForm ==
    /\ fnOut.fn = "none"
    /\ fnOut' = [fn |-> "validateAdForm", ret |-> validateAdForm(fnIn)]
    /\ UNCHANGED <<now, tiktok_tokens, fnIn, route>>
    /\ StoreFrame

NextValidate == CallValidateAdForm

SpecValidate == InitValidate /\ [][NextValidate]_vars

-----------------------------------------------------------------------------
(* src/pages/OAuthCallback.tsx (processCallback) and the error effect of    *)
(* src/pages/Home.tsx: what happens to an inbound redirect                  *)

\* steps 2 to 5 of processCallback: the error code it navigates home with,
\* or "proceed"
processCallback_gate_DeniedOnly(params) ==
    IF params.error = "access_denied" THEN "access_denied"
    ELSE IF ~truthy(params.code) THEN "missing_code"
    ELSE IF ~truthy(params.state) THEN "invalid_state"
    ELSE "proceed"

processCallback_gate(params) ==
    IF params.error = "access_denied" THEN "access_denied"
    ELSE IF truthy(params.error) THEN "oauth_failed"
    ELSE IF ~truthy(params.code) THEN "missing_code"
    ELSE IF ~truthy(params.state) THEN "invalid_state"
    ELSE "proceed"

\* the effect of OAuthCallback up to its await; it runs after mount and again
\* whenever the AuthProvider has rendered, handleCallback being a new function
\* each time
processCallback ==
    /\ route.path = "/auth/callback"
    /\ LET params == route.search
           gate == processCallback_gate(params)
       IN IF gate = "proceed"
          THEN handleCallback(params.code, params.state)
          ELSE /\ route' = [path |-> "/",
                            search |-> [NoParams EXCEPT !.error = gate],
                            oauthError |-> NullObj]
               /\ ev' = [op |-> "processCallback", search |-> params,
                         navigate |-> gate]
               /\ UNCHANGED <<apiMode, now, page, oauth_state, tiktok_tokens,
                              authState, boot, inflight, fnIn, fnOut, form, music>>

\* processCallback after `await handleCallback(code, state)`: handleCallback
\* catches every error itself, so the promise resolves and navigate("/") runs
processCallback_resumed ==
    /\ route.path = "/auth/callback"
    /\ \/ ev.op = "handleCallback" /\ ~ev.verified
       \/ ev.op = "exchangeDone" /\ ~ev.ok
       \/ ev.op = "callbackDone"
    /\ route' = RouteIdle
    /\ ev' = [op |-> "processCallbackDone", navigate |-> "/"]
    /\ UNCHANGED <<apiMode, now, page, oauth_state, tiktok_tokens, authState,
                   boot, inflight, fnIn, fnOut, form, music>>

\* the effect of Home on [searchParams]
HomeErrorEffect ==
    /\ route.path = "/"
    /\ truthy(route.search.error)
    /\ route' = [route EXCEPT !.oauthError = getOAuthFriendlyError(route.search.error),
                              !.search = NoParams]
    /\ ev' = [op |-> "homeError", error |-> route.search.error]
    /\ UNCHANGED <<apiMode, now, page, oauth_state, tiktok_tokens, authState,
                   boot, inflight, fnIn, fnOut, form, music>>

\* onDismiss of the banner of Home
DismissOauthError ==
    /\ route.path = "/"
    /\ route.oauthError # NullObj
    /\ route' = [route EXCEPT !.oauthError = NullObj]
    /\ ev' = [op |-> "dismissOauthError"]
    /\ UNCHANGED <<apiMode, now, page, oauth_state, tiktok_tokens, authState,
                   boot, inflight, fnIn, fnOut, form, music>>

\* query strings of an inbound redirect: each parameter absent, empty or set
RedirectParams ==
    [error : {NullStr, "", "access_denied", "server_error"},
     code : {NullStr, ""} \cup Codes,
     state : {NullStr, "", "s1", "wrong"}]

\* values of ?error= the index route can be opened with
HomeErrorCodes ==
    {"access_denied", "missing_code", "invalid_state", "oauth_failed",
     "server_error"}

InitRedirect ==
    /\ apiMode = "real"
    /\ now = 0
    /\ page = "mounted"
    /\ oauth_state \in {NullStr, "s1"}
    /\ tiktok_tokens = NullObj
    /\ authState = Unauthenticated
    /\ boot = BootIdle
    /\ inflight = {}
    /\ ev = [op |-> "mount"]
    /\ fnIn = NullObj
    /\ fnOut = [fn |-> "none"]
    /\ form = FormIdle
    /\ music = MusicIdle
    /\ route \in {[path |-> "/auth/callback", search |-> p, oauthError |-> NullObj] :
                     p \in RedirectParams}
                 \cup {[path |-> "/", search |-> [NoParams EXCEPT !.error = e],
                        oauthError |-> NullObj] : e \in HomeErrorCodes}

NextRedirect ==
    \/ processCallback
    \/ processCallback_resumed
    \/ HomeErrorEffect
    \/ DismissOauthError
    \/ \E call \in inflight, r \in exchangeCodeForTokens : ExchangeSettled(call, r)
    \/ \E call \in inflight, r \in getAdvertiserInfo(apiMode) : ProfileSettled(call, r)

SpecRedirect == InitRedirect /\ [][NextRedirect]_vars

-----------------------------------------------------------------------------
(* MusicSelector: handleFileUpload; ErrorBanner; the form together with its  *)
(* music selector over time                                                  *)

\* template literals: `UPLOAD_${Date.now()}${Math.floor(Math.random() * 10000)}`
templateString(parts) == parts[1] \o ToString(parts[2]) \o ToString(parts[3])

\* what a handleChange(field, ...) called later reads of the render it was
\* created in: errors[field] and systemError
seenBy(field) ==
    [errors |-> [k \in DOMAIN form.errors \cap {field} |-> form.errors[k]],
     systemError |-> form.systemError]

\* handleFileUpload(e) up to its await; the input is rendered for the upload
\* option only and is disabled while a file is uploading
handleFileUpload(file) ==
    /\ form.formData.musicOption = "upload"
    /\ ~music.uploadingMusic
    /\ truthy(authState.accessToken)
    /\ form' = handleChange_updates(form, "uploadedMusicFile", file, form)
    /\ music' = [music EXCEPT
                    !.uploadingMusic = TRUE,
                    !.uploads = @ \cup {[file |-> file, startedAt |-> now,
                                         seen |-> seenBy("musicId")]}]
    /\ ev' = [op |-> "handleFileUpload", file |-> file]
    /\ UNCHANGED <<apiMode, now, page, oauth_state, tiktok_tokens, authState,
                   boot, inflight, fnIn, fnOut, route>>

\* uploadMusic(file, accessToken) settles, some time after it was called:
\* the rest of handleFileUpload, whose onChange is the handleChange of the
\* render the file was picked in, and the effects of the render after it
UploadMusicSettled(up, r) ==
    /\ up \in music.uploads
    /\ LET generatedMusicId == templateString(r.returned)
           next == [form.formData EXCEPT !.musicId = generatedMusicId]
       IN /\ form' = handleChange_updates(form, "musicId", generatedMusicId, up.seen)
          /\ music' = [MusicEffects(music, form.formData, next,
                                    authState.accessToken, now)
                         EXCEPT !.musicValidationResult =
                                    [valid |-> TRUE,
                                     message |-> "(check) Uploaded \""
                                                    \o up.file.name
                                                    \o "\" successfully"],
                                !.uploadingMusic = FALSE,
                                !.uploads = @ \ {up}]
    /\ ev' = [op |-> "uploadMusicSettled", musicId |-> templateString(r.returned)]
    /\ UNCHANGED <<apiMode, now, page, oauth_state, tiktok_tokens, authState,
                   boot, inflight, fnIn, fnOut, route>>

\* a prop that is not passed
NoHandler == [undefined |-> TRUE]

\* ErrorBanner: whether the Retry button is rendered
ErrorBanner_Retry(error, onRetry) == error.canRetry /\ onRetry # NoHandler

\* the onRetry prop AdCreationForm gives its ErrorBanner: it passes error and
\* onDismiss only, handleRetry is bound to nothing
AdCreationForm_onRetry == NoHandler

\* whether the form shows a Retry button
RetryOffered ==
    /\ form.systemError # NullObj
    /\ ErrorBanner_Retry(form.systemError, AdCreationForm_onRetry)

\* onDismiss of the banner of the form
DismissSystemError ==
    /\ form.systemError # NullObj
    /\ form' = [form EXCEPT !.systemError = NullObj]
    /\ ev' = [op |-> "dismissSystemError"]
    /\ UNCHANGED <<apiMode, now, page, oauth_state, tiktok_tokens, authState,
                   boot, inflight, fnIn, fnOut, music, route>>

\* the None radio is disabled while the objective is CONVERSIONS
inputEnabled(field, value) ==
    ~(field = "musicOption" /\ value = "none"
        /\ form.formData.objective = "CONVERSIONS")

\* instants at which a timer of the music selector is due: the debounce
\* timers, and in mock mode the validation answers
MusicDues ==
    {timer.due : timer \in music.timers}
        \cup IF apiMode = "mock"
             THEN {call.sentAt + mockValidateDelay : call \in music.pending}
             ELSE {}

\* what the inputs are set to
AdFieldValues ==
    [campaignName |-> {"Summer Sale"},
     objective |-> {"TRAFFIC", "CONVERSIONS"},
     adText |-> {"Buy now"},
     musicOption |-> {"existing", "upload", "none"},
     musicId |-> {"1234567890123456"}]

\* the files picked
AdFiles ==
    {[name |-> "song.mp3", type |-> "audio/mpeg", size |-> 1024],
     [name |-> "big.wav", type |-> "audio/wav", size |-> maxSize + 1]}

\* what fetch does to the requests of the form
AdFetchOutcomes ==
    {f \in FetchOutcomes :
        \/ f.kind = "reject" /\ f.error.message = "Failed to fetch"
        \/ f.kind = "json" /\ f.body.code = "0"
        \/ f.kind = "json" /\ f.body.code = "40104"
              /\ f.body.message = "access_token_expired" /\ f.body.data = NullObj}

\* the form with its file input, filled in and submitted within the debounce
\* delay of the last music ID edit
InitAd ==
    /\ apiMode \in {"real", "mock"}
    /\ now = 0
    /\ page = "mounted"
    /\ oauth_state = NullStr
    /\ tiktok_tokens = NullObj
    /\ authState = Authenticated(mockTokens(0), mockGetAdvertiserInfo)
    /\ boot = BootIdle
    /\ inflight = {}
    /\ ev = [op |-> "none"]
    /\ fnIn = NullObj
    /\ fnOut = [fn |-> "none"]
    /\ form = FormIdle
    /\ music = MusicIdle
    /\ route = RouteIdle

NextAd ==
    \/ \E field \in DOMAIN AdFieldValues :
          \E value \in AdFieldValues[field] :
             inputEnabled(field, value) /\ handleChange(field, value)
    \/ \E file \in AdFiles : handleFileUpload(file)
    \/ \E up \in music.uploads : UploadMusicSettled(up, uploadMusic(now, 0))
    \/ handleSubmit
    \/ \E call \in form.pending :
          \E fetched \in AdFetchOutcomes, shouldFail \in BOOLEAN :
             CreateAdSettled(call, createAd(apiMode, fetched, shouldFail, now))
    \/ DismissSystemError

SpecAd == InitAd /\ [][NextAd]_vars

-----------------------------------------------------------------------------
(* The form over time: a music ID is typed, validated after the debounce     *)
(* delay, and the form is submitted                                          *)

\* the latest instant observed
MaxSubmitTime == 1300

\* time passes until the next timer is due; a timer that is due runs first
Elapse ==
    /\ \A due \in MusicDues : due > now
    /\ \E due \in MusicDues :
          /\ \A other \in MusicDues : due <= other
          /\ due <= MaxSubmitTime
          /\ now' = due
    /\ ev' = [op |-> "elapse"]
    /\ UNCHANGED <<apiMode, page, oauth_state, tiktok_tokens, authState, boot,
                   inflight, fnIn, fnOut, form, music, route>>

SubmitFieldValues ==
    [campaignName |-> {"Summer Sale"},
     adText |-> {"Buy now"},
     musicId |-> {"1111111111", "1234567890123456"}]

InitSubmit == InitAd

NextSubmit ==
    \/ Elapse
    \/ \E field \in DOMAIN SubmitFieldValues :
          \E value \in SubmitFieldValues[field] : handleChange(field, value)
    \/ \E timer \in music.timers : handleValidateMusicId(timer)
    \/ \E call \in music.pending :
          \E fetched \in AdFetchOutcomes :
             ValidateMusicIdSettled(call,
                 validateMusicId(apiMode, call.musicId, fetched))
    \/ handleSubmit
    \/ \E call \in form.pending :
          \E fetched \in AdFetchOutcomes, shouldFail \in BOOLEAN :
             CreateAdSettled(call, createAd(apiMode, fetched, shouldFail, now))

SpecSubmit == InitSubmit /\ [][NextSubmit]_vars

-----------------------------------------------------------------------------
(* One document of the app from its load on: the mount effect runs and every *)
(* request sent is answered                                                  *)

\* the document is loaded on a first visit or on the return from the
\* authorization page, the state token of the login then being stored
InitLive ==
    /\ apiMode \in {"real", "mock"}
    /\ now = 0
    /\ page = "mounted"
    /\ oauth_state \in States \cup {NullStr}
    /\ tiktok_tokens \in InitialItems
    /\ authState = InitialAuthState
    /\ boot = [phase |-> "pending", tokens |-> NullObj]
    /\ inflight = {}
    /\ ev = [op |-> "mount"]
    /\ fnIn = NullObj
    /\ fnOut = [fn |-> "none"]
    /\ form = FormIdle
    /\ music = MusicIdle
    /\ route = RouteIdle

\* getAdvertiserInfo of initAuth settles, for the stored or the mock tokens
InitAuthStoredAnswered == \E r \in getAdvertiserInfo(apiMode) : InitAuthStoredSettled(r)
InitAuthMockAnswered == \E r \in getAdvertiserInfo(apiMode) : InitAuthMockSettled(r)

\* the requests of handleCallback settle
ExchangeAnswered ==
    \E call \in inflight, r \in exchangeCodeForTokens : ExchangeSettled(call, r)
ProfileAnswered ==
    \E call \in inflight, r \in getAdvertiserInfo(apiMode) : ProfileSettled(call, r)

NextLive ==
    \/ Tick
    \/ InitAuthStart
    \/ InitAuthStoredAnswered
    \/ InitAuthMockAnswered
    \/ logout
    \/ \E code \in Codes, callbackState \in CallbackStates :
           handleCallback(code, callbackState)
    \/ ExchangeAnswered
    \/ ProfileAnswered

\* the effect of the mount runs, and every network operation eventually
\* resolves or rejects
Answered ==
    /\ WF_vars(InitAuthStart)
    /\ WF_vars(InitAuthStoredAnswered)
    /\ WF_vars(InitAuthMockAnswered)
    /\ WF_vars(ExchangeAnswered)
    /\ WF_vars(ProfileAnswered)

SpecLive == InitLive /\ [][NextLive]_vars /\ Answered

\* ---- properties of the classifier, the gateway and the form ----

-----------------------------------------------------------------------------
(* Properties of mapApiErrorToUserError, checked under SpecClassify *)

\* lower-cased message of a structured error, "" when it is not a string
LowerOrEmpty(error) ==
    IF isString(error.message) THEN toLowerCase(error.message) ELSE ""

IsDescriptor(ret) == DOMAIN ret = {"type", "title", "message", "action", "canRetry"}

\* C14: mapApiErrorToUserError never throws: for every input, objects whose
\* code and message are not strings, null and non-objects included, it
\* returns a descriptor, and an input that is neither a transport failure
\* nor a structured error yields UNKNOWN_ERROR with canRetry true.
C14_NeverThrows ==
    fnOut.fn = "mapApiErrorToUserError" =>
        /\ IsDescriptor(fnOut.ret)
        /\ ~instanceofTypeError(fnIn) /\ ~isApiError(fnIn) =>
              fnOut.ret.type = "UNKNOWN_ERROR" /\ fnOut.ret.canRetry

\* C15: every TypeError, whatever its message text, is classified
\* NETWORK_ERROR with canRetry true.
C15_TransportFailure ==
    fnOut.fn = "mapApiErrorToUserError" /\ instanceofTypeError(fnIn) =>
        /\ IsDescriptor(fnOut.ret)
        /\ fnOut.ret.type = "NETWORK_ERROR" /\ fnOut.ret.canRetry

\* the earliest rule of ClassifierRules a structured error satisfies
FirstRule(error) ==
    LET i == CHOOSE j \in 1..Len(ClassifierRules) :
                 /\ RuleMatches(ClassifierRules[j], error, data_error_code(error),
                                LowerOrEmpty(error))
                 /\ \A k \in 1..(j - 1) :
                        ~RuleMatches(ClassifierRules[k], error,
                                     data_error_code(error), LowerOrEmpty(error))
    IN ClassifierRules[i]

\* C17: for every structured error the result is the descriptor of the
\* earliest rule it satisfies in the order InvalidCredentials, ExpiredSession,
\* MissingPermissions, GeoRestricted, RateLimited, InvalidMusicId,
\* MusicUnavailable, Unknown; canRetry is false exactly for
\* InvalidCredentials, MissingPermissions and GeoRestricted; and code
\* invalid_client yields InvalidCredentials with canRetry false whatever the
\* other fields are.
C17_FirstRuleWins ==
    fnOut.fn = "mapApiErrorToUserError" /\ isApiError(fnIn) =>
        /\ fnOut.ret = RuleDescriptor(FirstRule(fnIn), fnIn)
        /\ fnOut.ret.canRetry =
              (FirstRule(fnIn) \notin
                  {"InvalidCredentials", "MissingPermissions", "GeoRestricted"})
        /\ fnIn.code = "invalid_client" =>
              /\ fnOut.ret.type = "OAUTH_INVALID_CREDENTIALS"
              /\ fnOut.ret.canRetry = FALSE

\* C18: a structured error whose data.error_code is music_not_available and
\* that satisfies none of the credential, grant, permission, geo and
\* rate-limit rules is classified MUSIC_NOT_AVAILABLE with canRetry true,
\* whatever its message says.
C18_MusicUnavailable ==
    /\ fnOut.fn = "mapApiErrorToUserError" /\ isApiError(fnIn)
    /\ isString(fnIn.message)
    /\ data_error_code(fnIn) = "music_not_available"
    /\ \A r \in {"InvalidCredentials", "ExpiredSession", "MissingPermissions",
                 "GeoRestricted", "RateLimited"} :
           ~RuleMatches(r, fnIn, data_error_code(fnIn), LowerOrEmpty(fnIn))
    => /\ fnOut.ret.type = "MUSIC_NOT_AVAILABLE"
       /\ fnOut.ret.canRetry

\* C20: the error apiRequest throws for the response
\* {code: 40104, message: "access_token_expired"} is classified
\* OAUTH_EXPIRED_TOKEN, "Session Expired", "Reconnect Account", canRetry true.
C20_AccessTokenExpired ==
    /\ fnOut.fn = "mapApiErrorToUserError"
    /\ fnIn = [name |-> "Object", code |-> "40104",
               message |-> "access_token_expired"]
    => /\ fnOut.ret.type = "OAUTH_EXPIRED_TOKEN"
       /\ fnOut.ret.title = "Session Expired"
       /\ fnOut.ret.action = "Reconnect Account"
       /\ fnOut.ret.canRetry

-----------------------------------------------------------------------------
(* The error a failed callback leaves in the session, checked under Spec *)

\* C11: whenever handleCallback fails (state mismatch, token exchange
\* failure, profile fetch failure) the session is left not authenticated and
\* the error it carries is the text of the classifier's descriptor for the
\* failure, never the raw machine message: for a state mismatch that of
\* getOAuthFriendlyError("invalid_state"), a retryable descriptor telling the
\* user to start again, otherwise that of mapApiErrorToUserError.
C11_ClassifiedFailure ==
    /\ ev.op = "handleCallback" /\ ~ev.verified =>
          /\ ~authState.isAuthenticated /\ ~authState.loading
          /\ getOAuthFriendlyError("invalid_state").canRetry
          /\ authState.error = getOAuthFriendlyError("invalid_state").message
    /\ ev.op \in {"exchangeDone", "callbackDone"} /\ ~ev.ok =>
          /\ ~authState.isAuthenticated /\ ~authState.loading
          /\ authState.error = mapApiErrorToUserError(ev.error).message

-----------------------------------------------------------------------------
(* Properties of the remote gateway (tiktokApi.ts), checked under SpecGateway *)

\* C16: when the request of getAdvertiserInfo, validateMusicId, createAd or
\* uploadMusic is rejected without a response, the operation rejects with
\* the one transport error, and does not return a value of its own such as
\* {valid: false} or {success: false}.
C16_UniformTransportError ==
    /\ fnOut.fn \in GatewayOps
    /\ SendsRequest(apiMode, fnOut.fn)
    /\ fnIn.fetched.kind = "reject"
    => fnOut.ret = Rejected(networkError)

-----------------------------------------------------------------------------
(* Properties of the music ID input (MusicSelector), checked under SpecMusic *)

\* the one request the debounce owes the last edit
DebouncedRequest ==
    [musicId |-> form.formData.musicId,
     at |-> music.hist.changedAt + debounceDelay]

\* C12 as stated: after edits of the Existing music ID less than 500 ms
\* apart, exactly one validation request is sent, 500 ms after the last
\* edit, carrying the final value.
C12_Original ==
    /\ ev.op = "handleValidateMusicId" =>
          /\ ev.musicId = form.formData.musicId
          /\ now = music.hist.changedAt + debounceDelay
    /\ form.formData.musicOption = "existing" /\ music.hist.byInput =>
          /\ music.hist.sent \subseteq {DebouncedRequest}
          /\ now < music.hist.changedAt + debounceDelay => music.hist.sent = {}
          /\ now > music.hist.changedAt + debounceDelay =>
                music.hist.sent = {DebouncedRequest}

\* C12 amended: after edits of the Existing music ID less than 500 ms apart,
\* with the option left on Existing, no request is sent before 500 ms have
\* passed since the last edit; if the final value is not empty exactly one
\* request is sent, 500 ms after the last edit, carrying the final value;
\* if the final value is empty no request is sent at all.
C12_Debounce ==
    /\ ev.op = "handleValidateMusicId" =>
          /\ ev.musicId = form.formData.musicId
          /\ now = music.hist.changedAt + debounceDelay
    /\ form.formData.musicOption = "existing" /\ music.hist.byInput =>
          /\ music.hist.sent \subseteq {DebouncedRequest}
          /\ now < music.hist.changedAt + debounceDelay => music.hist.sent = {}
          /\ now > music.hist.changedAt + debounceDelay =>
                music.hist.sent = IF form.formData.musicId = "" THEN {}
                                  ELSE {DebouncedRequest}

\* three edits in a row less than 500 ms apart, then the one request
C12_Witness ==
    /\ ev.op = "handleValidateMusicId"
    /\ music.hist.byInput /\ music.hist.burst = 3
    /\ music.hist.sent = {DebouncedRequest}
    /\ music.pending = {[musicId |-> form.formData.musicId, sentAt |-> now]}

\* C13: a response to a validation request that was in flight when the
\* music ID was edited again is discarded on arrival and does not set the
\* displayed validation result.
C13_StaleDiscarded ==
    ev.op = "validateMusicIdSettled" /\ ev.musicId # form.formData.musicId =>
        music.musicValidationResult = ev.before

-----------------------------------------------------------------------------
(* Properties of the submission (AdCreationForm), checked under SpecForm *)

SimulatedRejection ==
    Returned([success |-> FALSE,
              error |-> [name |-> "Object", code |-> "40002",
                         message |-> "Rate limit exceeded"]])

\* C19: the simulated rejection of createAd is a returned value, not an
\* exception: in mock mode createAd never rejects and its only failure is
\* {success: false, error: {code: "40002", message: "Rate limit exceeded"}};
\* when createAd resolves to that value the displayed system error is the
\* classifier's RATE_LIMIT descriptor, with canRetry true.
C19_SimulatedRejection ==
    /\ ev.op = "createAdSettled" /\ apiMode = "mock" =>
          /\ "returned" \in DOMAIN ev.result
          /\ ~ev.result.returned.success => ev.result = SimulatedRejection
    /\ ev.op = "createAdSettled" /\ ev.result = SimulatedRejection =>
          /\ mapApiErrorToUserError(ev.result.returned.error) = RateLimitDescriptor
          /\ form.systemError = RateLimitDescriptor
          /\ form.systemError.type = "RATE_LIMIT" /\ form.systemError.canRetry
          /\ ~form.submitting /\ ~form.success

C19_Witness ==
    /\ ev.op = "createAdSettled" /\ apiMode = "mock"
    /\ ev.result = SimulatedRejection
    /\ form.systemError = RateLimitDescriptor

\* a form in which every rule other than the cross-field music rule is met
OtherwiseValid(formData) ==
    /\ formData.campaignName \in {"abc", " a ", Name100}
    /\ formData.adText = "Buy now"
    /\ formData.cta = "LEARN_MORE"

\* C21: for a form that is valid in every other respect and has musicOption
\* none, validateAdForm returns exactly the musicOption error when the
\* objective is CONVERSIONS and returns no error at all when it is TRAFFIC
C21_MusicRequiredForConversions ==
    (fnOut.fn = "validateAdForm" /\ fnIn.musicOption = "none"
        /\ OtherwiseValid(fnIn))
    => IF fnIn.objective = "CONVERSIONS"
       THEN /\ DOMAIN fnOut.ret = {"musicOption"}
            /\ fnOut.ret.musicOption =
                   "Music is required for Conversions campaigns"
       ELSE fnOut.ret = <<>>

C21_Witness ==
    /\ fnOut.fn = "validateAdForm" /\ fnIn.musicOption = "none"
    /\ OtherwiseValid(fnIn) /\ fnIn.objective = "CONVERSIONS"
    /\ "musicOption" \in DOMAIN fnOut.ret

Blank(name) == \A i \in 1..Len(name) : SubSeq(name, i, i) = " "

AcceptedTypes ==
    {t \in FileTypes :
        "uploadedMusicFile" \notin DOMAIN validateAdForm(
            [InitialFormData EXCEPT
                !.musicOption = "upload",
                !.uploadedMusicFile = [type |-> t, size |-> maxSize - 1]])}

\* C23 as stated: with musicOption upload an uploadedMusicFile error is
\* reported exactly when the file is missing, its type is not one of the
\* three accepted types, or its size exceeds 10 MiB
C23_Original ==
    (fnOut.fn = "validateAdForm" /\ fnIn.musicOption = "upload")
    => /\ Cardinality(AcceptedTypes) = 3
       /\ "uploadedMusicFile" \in DOMAIN fnOut.ret
            <=> \/ fnIn.uploadedMusicFile = NoFile
                \/ fnIn.uploadedMusicFile.type \notin AcceptedTypes
                \/ fnIn.uploadedMusicFile.size > 10 * 1024 * 1024

\* C23: with musicOption upload an uploadedMusicFile error is reported
\* exactly when the file is missing, its type is not one of the four
\* accepted types audio/mpeg, audio/wav, audio/mp4, audio/x-m4a, or its size
\* exceeds 10 MiB; an accepted type with exactly 10 MiB gives no error
C23_Upload ==
    (fnOut.fn = "validateAdForm" /\ fnIn.musicOption = "upload")
    => ("uploadedMusicFile" \in DOMAIN fnOut.ret
            <=> \/ fnIn.uploadedMusicFile = NoFile
                \/ fnIn.uploadedMusicFile.type \notin
                       {"audio/mpeg", "audio/wav", "audio/mp4", "audio/x-m4a"}
                \/ fnIn.uploadedMusicFile.size > 10 * 1024 * 1024)

C23_Witness ==
    /\ fnOut.fn = "validateAdForm" /\ fnIn.musicOption = "upload"
    /\ fnIn.uploadedMusicFile # NoFile
    /\ fnIn.uploadedMusicFile.type = "audio/x-m4a"
    /\ fnIn.uploadedMusicFile.size = 10 * 1024 * 1024
    /\ "uploadedMusicFile" \notin DOMAIN fnOut.ret

-----------------------------------------------------------------------------
(* validateMusicId: business outcome against failure, under SpecGateway *)

\* C26: validateMusicId gives a "not found" answer as the returned value
\* {valid: false, error} and never rejects for it, while a transport failure
\* (no response) and a protocol failure (authorization or rate-limit code in
\* the response) reject and are not returned as {valid: false}.
C26_NotFoundIsAValue ==
    fnOut.fn = "validateMusicId" =>
        /\ (apiMode = "mock" /\ fnIn.musicId \notin MOCK_MUSIC_IDS)
              => /\ "returned" \in DOMAIN fnOut.ret
                 /\ ~fnOut.ret.returned.valid
                 /\ truthy(fnOut.ret.returned.error)
        /\ (apiMode # "mock" /\ fnIn.fetched.kind = "reject")
              => "rejected" \in DOMAIN fnOut.ret
        /\ (apiMode # "mock" /\ fnIn.fetched.kind = "json"
                /\ fnIn.fetched.body.code \in {"40104", "40002"})
              => "rejected" \in DOMAIN fnOut.ret

-----------------------------------------------------------------------------
(* The token exchange of handleOAuthCallback, checked under Spec *)

\* C28: a step in which the token exchange settles with a failure (the
\* ApiError {code, message} of a non-success response, or the error of a
\* rejected fetch) leaves the stored credential as it was and hands that
\* error on; a step in which it settles with success stores the credential
\* stamped with timestamp = now.
C28_ExchangeFailureKeepsStore ==
    [][ev'.op = "exchangeDone" =>
          IF ev'.ok
          THEN /\ ev'.tokens.timestamp = now
               /\ tiktok_tokens' = storeTokens(ev'.tokens)
               /\ JSON_parse(tiktok_tokens').timestamp = now
          ELSE /\ tiktok_tokens' = tiktok_tokens
               /\ truthy(ev'.error.message)
               /\ ev'.error.name = "Object" => truthy(ev'.error.code)]_vars

C28_Witness ==
    /\ ev.op = "exchangeDone" /\ ~ev.ok
    /\ IsObjectText(tiktok_tokens)

-----------------------------------------------------------------------------
(* Properties of the inbound redirect, checked under SpecRedirect *)

\* a descriptor that offers to start the authorization again
RestartDescriptor(d) == d.canRetry /\ truthy(d.action) /\ truthy(d.title)

\* C30 as stated: a redirect that has an error parameter, or has no code or
\* no state, never reaches handleCallback and is answered with one of
\* access_denied (error=access_denied), oauth_failed (any other error),
\* missing_code (no code), invalid_state (no state); the descriptor shown
\* for any code is retryable and has an instruction.
C30_Original ==
    /\ (ev.op = "handleCallback" /\ route.path = "/auth/callback")
          => /\ route.search.error = NullStr
             /\ route.search.code \notin {NullStr, ""}
             /\ route.search.state \notin {NullStr, ""}
    /\ ev.op = "processCallback"
          => \/ ev.navigate = "access_denied" /\ ev.search.error = "access_denied"
             \/ ev.navigate = "oauth_failed"
                   /\ ev.search.error \notin {NullStr, "access_denied"}
             \/ ev.navigate = "missing_code" /\ ev.search.code \in {NullStr, ""}
             \/ ev.navigate = "invalid_state" /\ ev.search.state \in {NullStr, ""}
    /\ ev.op = "homeError" => RestartDescriptor(route.oauthError)

\* C30: a redirect that has a non-empty error parameter, or whose code or
\* state parameter is absent or empty, never reaches handleCallback and is
\* answered with access_denied (error=access_denied), oauth_failed (any other
\* non-empty error), missing_code (code absent or empty), invalid_state
\* (state absent or empty), in that order of precedence; an empty error
\* parameter counts as none.  The descriptor shown for each of these codes
\* and for any other code is retryable and has an instruction.
C30_Redirect ==
    /\ (ev.op = "handleCallback" /\ route.path = "/auth/callback")
          => /\ route.search.error \in {NullStr, ""}
             /\ route.search.code \notin {NullStr, ""}
             /\ route.search.state \notin {NullStr, ""}
    /\ ev.op = "processCallback"
          => /\ ev.navigate =
                   IF ev.search.error = "access_denied" THEN "access_denied"
                   ELSE IF ev.search.error \notin {NullStr, ""} THEN "oauth_failed"
                   ELSE IF ev.search.code \in {NullStr, ""} THEN "missing_code"
                   ELSE "invalid_state"
             /\ ev.navigate = "invalid_state" => ev.search.state \in {NullStr, ""}
             /\ inflight = {} /\ authState = Unauthenticated
    /\ ev.op = "homeError" => RestartDescriptor(route.oauthError)

C30_Witness ==
    /\ ev.op = "homeError" /\ ev.error = "invalid_state"
    /\ route.oauthError.title = "Security Check Failed"
    /\ inflight = {} /\ oauth_state = "s1"

\* C24: createAd is invoked only when validateAdForm of the form data at
\* submission time returns no keys and the access token is non-empty; no
\* request with objective CONVERSIONS and musicOption none is ever sent
C24_SubmissionBlockedByValidation ==
    /\ ev.op = "handleSubmit" /\ ev.sent =>
          /\ DOMAIN validateAdForm(form.formData) = {}
          /\ truthy(authState.accessToken)
    /\ \A call \in form.pending :
          /\ DOMAIN validateAdForm(call.formData) = {}
          /\ truthy(call.accessToken)
          /\ ~(call.formData.objective = "CONVERSIONS"
                 /\ call.formData.musicOption = "none")

\* C24: a form with an uploaded track was submitted and its createAd call
\* is awaited
C24_Witness ==
    /\ ev.op = "handleSubmit" /\ ev.sent
    /\ \E call \in form.pending :
          /\ call.formData.objective = "CONVERSIONS"
          /\ call.formData.musicOption = "upload"

\* whether the errors shown are those of validating the form data
ErrorsShownAre(errors, validationErrors) ==
    /\ DOMAIN errors = DOMAIN validationErrors
    /\ \A field \in DOMAIN validationErrors :
          errors[field] = validationErrors[field]

\* C25: after any handleChange the displayed field errors equal
\* validateAdForm applied to the current form data
C25_ValidationOnChange ==
    ev.op = "handleChange" =>
        ErrorsShownAre(form.errors, validateAdForm(form.formData))

\* the last validation request was for the music ID now entered, and the
\* service answered, as shown below the input, that the ID is not valid
RejectedMusicId ==
    /\ form.formData.musicOption = "existing"
    /\ music.pending = {}
    /\ music.hist.sent # {}
    /\ \A sent \in music.hist.sent : sent.musicId = form.formData.musicId
    /\ music.musicValidationResult # NullObj
    /\ ~music.musicValidationResult.valid
    /\ music.musicValidationResult.message # "Failed to validate music ID"

C29_RetryOffered ==
    form.systemError # NullObj => (RetryOffered <=> form.systemError.canRetry)

\* the state tokens a callback could present and have verified
ValidTokens == {s \in CallbackStates : StateMatches(s, oauth_state)}

\* C31: at most one valid anti-forgery token exists at a time: an issue
\* overwrites the stored token, so after S1 then S2 were issued only S2 is
\* valid, and a callback is verified only when it presents the valid token
C31_SingleToken ==
    /\ Cardinality(ValidTokens) <= 1
    /\ ev.op = "login" => ValidTokens = {ev.issued}
    /\ ev.op = "handleCallback" =>
          (ev.verified <=> StateMatches(ev.state, ev.savedState))
    /\ ev.op = "handleCallback" /\ ev.verified => ev.savedState \in States

\* C31: a token was issued over a different one still stored
C31_Witness ==
    /\ ev.op = "login"
    /\ ev.savedState \in States
    /\ ev.savedState # ev.issued
    /\ oauth_state = ev.issued

\* C32: whenever handleCallback ends in failure, the profile fetch failing
\* after a successful token exchange included, the store holds no credential
\* from that attempt
C32_FailedCallbackStoresNothing ==
    ev.op = "callbackDone" /\ ~ev.ok => tiktok_tokens # storeTokens(ev.tokens)

\* C33: once logout() has run, the completion of a bootstrap or callback
\* started before it neither sets the session to Authenticated nor writes a
\* credential into the store
C33_LogoutNotUndone ==
    [][ev.op = "logout" =>
          /\ ~authState'.isAuthenticated
          /\ tiktok_tokens' = clearTokens]_vars

\* C34: a callback that fails state verification leaves an already
\* Authenticated session and the stored credential unchanged
C34_RejectionIsIdempotent ==
    [][authState.isAuthenticated /\ ev'.op = "handleCallback" /\ ~ev'.verified =>
          /\ authState' = authState
          /\ tiktok_tokens' = tiktok_tokens]_vars

\* the access token of the credential held in the store, NullStr when the
\* store holds none
StoredAccessToken ==
    IF IsObjectText(tiktok_tokens) THEN accessTokenOf(JSON_parse(tiktok_tokens))
    ELSE NullStr

\* C35: in real API mode, whenever the session is Authenticated and no
\* bootstrap or callback is in flight, the accessToken of the session equals
\* the accessToken of the credential held in the store
C35_SessionMatchesStore ==
    /\ apiMode = "real"
    /\ page = "mounted" /\ boot.phase = "done" /\ inflight = {}
    /\ authState.isAuthenticated
    => authState.accessToken = StoredAccessToken

\* C38: after a successful token exchange whose response data carries
\* access_token, that value is the Access-Token header of the profile fetch,
\* the token of the persisted credential and the accessToken of the
\* Authenticated session
C38_TokenIsExchanged ==
    /\ ev.op = "exchangeDone" /\ ev.ok /\ "access_token" \in DOMAIN ev.data =>
          /\ ev.header = ev.data.access_token
          /\ StoredAccessToken = ev.data.access_token
    /\ ev.op = "callbackDone" /\ ev.ok /\ "access_token" \in DOMAIN ev.tokens =>
          authState.accessToken = ev.tokens.access_token

\* C36: in every session state isAuthenticated is true exactly when
\* accessToken and user are both non-null, advertiserId then equals
\* user.advertiser_id, and a non-null error implies isAuthenticated false
C36_SessionShape ==
    /\ authState.isAuthenticated <=>
          (authState.accessToken # NullStr /\ authState.user # NullObj)
    /\ authState.isAuthenticated =>
          authState.advertiserId = authState.user.advertiser_id
    /\ authState.error # NullStr => ~authState.isAuthenticated

\* C40: every network operation being answered, every bootstrap and every
\* handleCallback eventually leaves the session with loading false: the
\* session never stays loading for ever
C40_LoadingEnds == authState.loading ~> ~authState.loading

\* C40: a callback that set loading has completed, nothing is in flight
\* and the session is not loading
C40_Witness ==
    /\ ev.op = "callbackDone"
    /\ inflight = {} /\ boot.phase = "done"
    /\ ~authState.loading

\* whether createAd settled with {success: true}
AdCreated(r) == "returned" \in DOMAIN r /\ r.returned.success

\* C39: a failed ad submission leaves the form data unchanged and sets a
\* system error, a successful one resets the form data to its defaults and
\* clears the field errors; in both cases submitting is false afterwards
C39_SubmissionOutcome ==
    [][ev'.op = "createAdSettled" =>
          /\ ~form'.submitting
          /\ IF AdCreated(ev'.result)
             THEN /\ form'.formData = InitialFormData
                  /\ DOMAIN form'.errors = {}
             ELSE /\ form'.formData = form.formData
                  /\ form'.systemError # NullObj]_vars

\* C39: createAd failed: the data entered is still in the form, a system
\* error is shown and submitting is false
C39_Witness ==
    /\ ev.op = "createAdSettled" /\ ~AdCreated(ev.result)
    /\ form.formData.campaignName = "Summer Sale"
    /\ form.systemError # NullObj
    /\ ~form.submitting

\* whether a music ID is one uploadMusic generated
IsUploadId(musicId) ==
    Len(musicId) > 7 /\ SubSeq(musicId, 1, 7) = "UPLOAD_"

\* C37: an ad submitted with musicOption upload carries the identifier
\* uploadMusic returned for the selected file: no createAd request is issued
\* while the upload is in flight or with a music ID left from before
C37_UploadedMusicId ==
    ev.op = "handleSubmit" /\ ev.sent /\ form.formData.musicOption = "upload" =>
        /\ music.uploads = {}
        /\ IsUploadId(form.formData.musicId)

====
